---- MODULE Spec2Model ----
(***************************************************************************)
(* Model of bin/safe_cluster_process.py: a sparse table is partitioned     *)
(* into chunk files, an external command is run once per chunk (in the     *)
(* main thread or on a thread pool), the files each command created are    *)
(* classified by regular expressions, and the per-category files are       *)
(* merged (or copied) into the final output directory.                     *)
(***************************************************************************)
EXTENDS Integers, Sequences, FiniteSets, TLC

VARIABLES
    cfg,        \* the parsed command line and the run's environment
    pc,         \* position of the main thread in main()
    exc,        \* the exception propagating in the main thread, if any
    dirs,       \* directories that exist
    files,      \* the file system: path -> content
    splitFps,   \* split_fps: names of the chunk files, in partition order
    cur,        \* loop index of the main thread (split, then category)
    task,       \* per split: the state of its execute_command call / worker
    allGrouped, \* all_grouped_files: category index -> the paths listed
    exitCode,   \* the exit code once the process has ended
    hist,       \* history of the run, recorded for the properties
    pin,        \* input of the pure function under test
    pout        \* its output

runVars == <<cfg, pc, exc, dirs, files, splitFps, cur, task, allGrouped,
             exitCode, hist>>
vars == <<cfg, pc, exc, dirs, files, splitFps, cur, task, allGrouped,
          exitCode, hist, pin, pout>>

None == "None"

-----------------------------------------------------------------------------
(* Bounds *)

\* largest number of samples of an enumerated input table
MaxSamp == 3
\* largest --max-samples value tried
MaxChunk == 2
\* largest --num-threads value tried
MaxThreads == 2
\* largest number of samples of the input table of a run
MaxRunSamp == 2
\* number of samples, one per split, of the input table of the long runs
LongRunSamp == 10
\* largest number of file paths handed to match_output_files on its own
MaxFiles == 2
\* largest number of file paths handed to join_biom_files on its own
MaxJoin == 3

-----------------------------------------------------------------------------
(* Strings are sequences of one-character strings. *)

DigitChar(d) ==
    CASE d = 0 -> "0" [] d = 1 -> "1" [] d = 2 -> "2" [] d = 3 -> "3"
      [] d = 4 -> "4" [] d = 5 -> "5" [] d = 6 -> "6" [] d = 7 -> "7"
      [] d = 8 -> "8" [] d = 9 -> "9"

RECURSIVE IntToStr(_)
\* '%s' % i  and  f"{i}"  for a natural number
IntToStr(i) ==
    IF i < 10 THEN <<DigitChar(i)>>
    ELSE IntToStr(i \div 10) \o <<DigitChar(i % 10)>>

\* Python's  sub in s  on strings
Contains(sub, s) ==
    \E k \in 0..(Len(s) - Len(sub)) : SubSeq(s, k + 1, k + Len(sub)) = sub

StartsWith(s, p) == Len(p) <= Len(s) /\ SubSeq(s, 1, Len(p)) = p

SPLIT_ == <<"s", "p", "l", "i", "t", "_">>
DOT_BIOM == <<".", "b", "i", "o", "m">>

\* 'split_%s.biom' % i
SplitFileName(i) == SPLIT_ \o IntToStr(i) \o DOT_BIOM

\* split_id = f"split_{i}"
SplitId(i) == SPLIT_ \o IntToStr(i)

Range(s) == {s[k] : k \in DOMAIN s}

RECURSIVE SeqOfSet(_)
\* some enumeration of a finite set (used for history only)
SeqOfSet(S) ==
    IF S = {} THEN <<>>
    ELSE LET x == CHOOSE y \in S : TRUE IN <<x>> \o SeqOfSet(S \ {x})

-----------------------------------------------------------------------------
(* Paths and regular expressions *)

\* a path is a directory and a base name; basename(path) is the name
Path(d, n) == [dir |-> d, name |-> n]
basename(p) == p.name

\* A pattern is a literal with optional anchors: lit, ^lit, lit$ (the same as
\* .*lit$ under search), ^lit$.  bad marks a pattern re.compile rejects.
Pattern(l, b, e) == [lit |-> l, bol |-> b, eol |-> e, bad |-> FALSE]
BadPattern == [lit |-> <<"(">>, bol |-> FALSE, eol |-> FALSE, bad |-> TRUE]

\* compiled_pattern.search(s)
Search(p, s) ==
    \E k \in 0..(Len(s) - Len(p.lit)) :
        /\ SubSeq(s, k + 1, k + Len(p.lit)) = p.lit
        /\ p.bol => k = 0
        /\ p.eol => k + Len(p.lit) = Len(s)

\* the files of file_paths, in order, whose base name pattern i matches
MatchingFiles(file_paths, pattern) ==
    SelectSeq(file_paths, LAMBDA f : Search(pattern, basename(f)))

\* a faulty match_output_files: a category with no match is kept, with an
\* empty list
MatchOutputFilesKeepEmpty(file_paths, regex_patterns) ==
    [i \in 0..(Len(regex_patterns) - 1) |->
        MatchingFiles(file_paths, regex_patterns[i + 1])]

\* match_output_files: category index (from 0) -> matching files; a category
\* without a match has no key
match_output_files(file_paths, regex_patterns) ==
    LET hit == {i \in 0..(Len(regex_patterns) - 1) :
                    MatchingFiles(file_paths, regex_patterns[i + 1]) # <<>>}
    IN  [i \in hit |-> MatchingFiles(file_paths, regex_patterns[i + 1])]

\* re.compile raises for some pattern of the list
CompileRaises(regex_patterns) ==
    \E i \in DOMAIN regex_patterns : regex_patterns[i].bad

-----------------------------------------------------------------------------
(* Tables *)

ObsIds == <<"o1", "o2">>

\* a table: sample ids and observation ids in order, and the value at every
\* (observation, sample) position
Table(s, o, v) == [sids |-> s, oids |-> o, val |-> v]

SampleSet(t) == Range(t.sids)
ObsSet(t) == Range(t.oids)

\* the value at a position, zero where the table has no such position
ValueAt(t, o, s) ==
    IF <<o, s>> \in DOMAIN t.val THEN t.val[<<o, s>>] ELSE 0

\* a file content that load_table cannot parse
Junk == [junk |-> TRUE]
\* load_table(x) parses the content x of a file
IsTable(x) == "sids" \in DOMAIN x

\* all tables with samples 1..n over ObsIds with entries in {0, 1}
Tables(n) ==
    {Table([k \in 1..n |-> k], ObsIds, v) :
        v \in [Range(ObsIds) \X (1..n) -> {0, 1}]}

Identity(n) == [k \in 1..n |-> k]
Perms(n) == {p \in [1..n -> 1..n] : \A a, b \in 1..n : p[a] = p[b] => a = b}

\* the presence/absence column of a sample
BinaryColumn(t, s) == [o \in ObsSet(t) |-> IF ValueAt(t, o, s) # 0 THEN 1 ELSE 0]

\* what linkage and leaves_list (lines 190-195) can do for n samples: return
\* the leaf order of the Ward dendrogram, some permutation, or raise
LinkageResults(n) ==
    [kind : {"order"}, order : Perms(n)] \cup {[kind |-> "raise"]}

\* a faulty ClusterOrder: an error raised by the clustering is not caught,
\* and no order is returned
ClusterOrderNoFallback(t, link) ==
    LET n == Len(t.sids) IN
    IF n <= 1 THEN Identity(n)
    ELSE IF \A k \in 1..n : BinaryColumn(t, t.sids[k]) = BinaryColumn(t, t.sids[1])
         THEN Identity(n)
         ELSE IF link.kind = "raise" THEN <<>> ELSE link.order

\* cluster_and_order_columns_by_similarity_sparse (lines 169-201), positions
\* counted from 1: the natural order for at most one sample, for samples
\* with one and the same presence/absence column, and when the clustering
\* raises; the leaf order otherwise
ClusterOrder(t, link) ==
    LET n == Len(t.sids) IN
    IF n <= 1 THEN Identity(n)
    ELSE IF \A k \in 1..n : BinaryColumn(t, t.sids[k]) = BinaryColumn(t, t.sids[1])
         THEN Identity(n)
         ELSE IF link.kind = "raise" THEN Identity(n) ELSE link.order

\* cluster_and_order_columns_by_similarity_sparse: the orders it can return.
\* The leaf order of the Ward dendrogram is some permutation; the fallbacks
\* return the natural order.
ClusterOrders(t) ==
    LET n == Len(t.sids) IN
    IF n <= 1 THEN {Identity(n)}
    ELSE IF \A k \in 1..n : BinaryColumn(t, t.sids[k]) = BinaryColumn(t, t.sids[1])
         THEN {Identity(n)}
         ELSE Perms(n)

\* list(ordered_samples).index(id_), counted from 0
IndexOf(seq, x) ==
    (CHOOSE k \in 1..Len(seq) :
        seq[k] = x /\ \A j \in 1..(k - 1) : seq[j] # x) - 1

\* a faulty PartKey: the position is taken in the table's own order, not in
\* the similarity ordering
PartKeyTableOrder(t, ord, max_samples, id) ==
    IndexOf(t.sids, id) \div max_samples

\* f = lambda id_, _: int(np.floor(index / max_samples))
PartKey(t, ord, max_samples, id) ==
    LET ordered == [k \in 1..Len(ord) |-> t.sids[ord[k]]]
    IN  IndexOf(ordered, id) \div max_samples

\* a faulty KeysInOrder: the partition that holds the last sample of the
\* order is lost
KeysInOrderDropLast(t, ord, max_samples, k) ==
    LET n == Len(t.sids)
        last == (n - 1) \div max_samples
    IN  SelectSeq([j \in 1..IF n = 0 THEN 0 ELSE last + 1 |-> j - 1],
                  LAMBDA key : key # last \/ n <= 1)

RECURSIVE KeysInOrder(_, _, _, _)
\* the keys of Table.partition's dictionary, in insertion order: the order
\* in which the samples, taken in table order, first produce them
KeysInOrder(t, ord, max_samples, k) ==
    IF k = 0 THEN <<>>
    ELSE LET prev == KeysInOrder(t, ord, max_samples, k - 1)
             key == PartKey(t, ord, max_samples, t.sids[k])
         IN  IF key \in Range(prev) THEN prev ELSE Append(prev, key)

\* the sub-table of the samples whose key is key
SubTable(t, ord, max_samples, key) ==
    LET s == SelectSeq(t.sids, LAMBDA id : PartKey(t, ord, max_samples, id) = key)
    IN  Table(s, t.oids, [p \in Range(t.oids) \X Range(s) |-> t.val[p]])

\* split_biom: original.partition(f), as the list of sub-tables it yields
split_biom(original, max_samples, ord) ==
    LET keys == KeysInOrder(original, ord, max_samples, Len(original.sids))
    IN  [j \in 1..Len(keys) |-> SubTable(original, ord, max_samples, keys[j])]

\* a faulty remove_empty: empty samples are removed as well
RemoveEmptyBothAxes(t) ==
    LET o == SelectSeq(t.oids, LAMBDA x : \E s \in Range(t.sids) : t.val[<<x, s>>] # 0)
        keep == SelectSeq(t.sids, LAMBDA s : \E x \in Range(t.oids) : t.val[<<x, s>>] # 0)
    IN  Table(keep, o, [p \in Range(o) \X Range(keep) |-> t.val[p]])

\* t.remove_empty(axis='observation')
remove_empty(t) ==
    LET o == SelectSeq(t.oids, LAMBDA x : \E s \in Range(t.sids) : t.val[<<x, s>>] # 0)
    IN  Table(t.sids, o, [p \in Range(o) \X Range(t.sids) |-> t.val[p]])

\* the tables partition_table writes, in the order split_1, split_2, ...
ChunkTables(original, max_samples, ord) ==
    LET parts == split_biom(original, max_samples, ord)
    IN  [j \in 1..Len(parts) |-> remove_empty(parts[j])]

-----------------------------------------------------------------------------
(* The file system of a run *)

TD == <<"/", "t", "d">>            \* td, the run's workspace directory
FINAL == <<"/", "f", "i", "n">>    \* final_output_dir
DOT == <<".">>                     \* the default command_output_location
OUT_REL == <<"o", "u", "t">>       \* a relative command_output_location
OUT_ABS == <<"/", "e", "x", "t">>  \* an absolute one, outside the workspace

isabs(d) == Len(d) > 0 /\ d[1] = "/"
join(d, n) == d \o <<"/">> \o n

\* d itself or a directory below it
Under(x, d) == x = d \/ StartsWith(x, d \o <<"/">>)

\* os.listdir(d): the files of d and the directories directly in d
ListDir(ds, fs, d) ==
    {q.name : q \in {x \in DOMAIN fs : x.dir = d}}
    \cup {SubSeq(x, Len(d) + 2, Len(x)) :
            x \in {y \in ds : StartsWith(y, d \o <<"/">>) /\ Len(y) > Len(d) + 1}}

\* the file system with content c written at path q
Put(fs, q, c) == [x \in DOMAIN fs \cup {q} |-> IF x = q THEN c ELSE fs[x]]

RECURSIVE PutAll(_, _, _)
\* the file system with content c written at every path of the set Q
PutAll(fs, Q, c) ==
    IF Q = {} THEN fs
    ELSE LET q == CHOOSE x \in Q : TRUE IN PutAll(Put(fs, q, c), Q \ {q}, c)

\* shutil.rmtree(d)
RmTreeDirs(ds, d) == {x \in ds : ~Under(x, d)}
RmTreeFiles(fs, d) == [x \in {y \in DOMAIN fs : ~Under(y.dir, d)} |-> fs[x]]

\* cmd_output_loc of process_single_split and of the sequential loop
CmdOutputLoc(loc) ==
    LET a == IF loc # DOT THEN loc ELSE TD
    IN  IF ~isabs(a) THEN join(TD, a) ELSE a

-----------------------------------------------------------------------------
(* The external command.  It is opaque to the program; the one modelled is *)
(* the tests' mock command: it copies its input file, unchanged, to one    *)
(* file per suffix, named after the input file's stem, in the directory    *)
(* given as --command-output-location.                                     *)

SFX1 == <<"_", "o", "1">>
SFX2 == <<"_", "o", "2">>

\* basename "$input_file" .biom, followed by the suffix
OutName(i, sfx) == SPLIT_ \o IntToStr(i) \o sfx

\* the paths the command of split i writes
CommandOutputs(c, i) ==
    {Path(CmdOutputLoc(c.command_output_location), OutName(i, sfx)) :
        sfx \in c.suffixes}

\* how the command of split i can end: exit 0, or (where the environment makes
\* it fail) exit non-zero before or after writing its files
Outcomes(c, i) ==
    {"ok"} \cup (IF i \in c.failable THEN {"fail", "partial"} ELSE {})

-----------------------------------------------------------------------------
(* Merging *)

\* a faulty LoadedTables: loading stops at the first file that is missing or
\* cannot be parsed
LoadedTablesUntilBad(fs, input_files) ==
    LET good(k) == input_files[k] \in DOMAIN fs /\ IsTable(fs[input_files[k]])
        n == IF \A k \in DOMAIN input_files : good(k) THEN Len(input_files)
             ELSE (CHOOSE k \in DOMAIN input_files :
                      ~good(k) /\ \A j \in 1..(k - 1) : good(j)) - 1
    IN  [k \in 1..n |-> fs[input_files[k]]]

\* load_table(x) under try/except, for the files that exist
LoadedTables(fs, input_files) ==
    LET ok == SelectSeq(input_files,
                        LAMBDA x : x \in DOMAIN fs /\ IsTable(fs[x]))
    IN  [k \in 1..Len(ok) |-> fs[ok[k]]]

\* the sample ids of the tables are pairwise disjoint
Disjoint(ts) ==
    \A a, b \in DOMAIN ts : a # b => SampleSet(ts[a]) \cap SampleSet(ts[b]) = {}

RECURSIVE ConcatIds(_, _)
\* the ids of the tables one after the other, each once
ConcatIds(idseqs, k) ==
    IF k = 0 THEN <<>>
    ELSE LET prev == ConcatIds(idseqs, k - 1)
         IN  prev \o SelectSeq(idseqs[k], LAMBDA x : x \notin Range(prev))

\* a faulty Concat: the observations of the base only
ConcatBaseObs(ts) ==
    LET s == ConcatIds([k \in DOMAIN ts |-> ts[k].sids], Len(ts))
        o == ts[1].oids
        owner(x) == CHOOSE k \in DOMAIN ts : x \in SampleSet(ts[k])
    IN  Table(s, o, [q \in Range(o) \X Range(s) |->
                        ValueAt(ts[owner(q[2])], q[1], q[2])])

\* base.concat(others) along the sample axis, for disjoint sample ids: the
\* samples of all tables, the union of the observations, and at a position
\* the value of the table that carries the sample
Concat(ts) ==
    LET s == ConcatIds([k \in DOMAIN ts |-> ts[k].sids], Len(ts))
        o == ConcatIds([k \in DOMAIN ts |-> ts[k].oids], Len(ts))
        owner(x) == CHOOSE k \in DOMAIN ts : x \in SampleSet(ts[k])
    IN  Table(s, o, [q \in Range(o) \X Range(s) |->
                        ValueAt(ts[owner(q[2])], q[1], q[2])])

\* join_biom_files: None when nothing loaded, DisjointIDError raised by
\* concat when two tables share a sample id, the joined table otherwise
join_biom_files(fs, input_files) ==
    LET split_bioms == LoadedTables(fs, input_files) IN
    IF split_bioms = <<>> THEN [kind |-> "none"]
    ELSE IF ~Disjoint(split_bioms) THEN [kind |-> "raise"]
    ELSE [kind |-> "table", table |-> Concat(split_bioms)]

-----------------------------------------------------------------------------
(* A run of main() *)

PREFIX == <<"p">>
\* group_names[i]: the supplied names or the default f"group_{i}", shortened
GroupName(i) == <<"g">> \o IntToStr(i)
\* f'{output_prefix}_{group_name}.biom'
MergedName(i) == PREFIX \o <<"_">> \o GroupName(i) \o DOT_BIOM
\* a faulty CopiedName: the copy takes the name of the merged table
CopiedNameAsMerged(i, f) == PREFIX \o <<"_">> \o GroupName(i) \o DOT_BIOM

\* f"{output_prefix}_{group_name}_{basename(file)}"
CopiedName(i, f) == PREFIX \o <<"_">> \o GroupName(i) \o <<"_">> \o basename(f)

P1 == Pattern(SFX1, FALSE, TRUE)   \* .*_o1$
P2 == Pattern(SFX2, FALSE, TRUE)   \* .*_o2$
\* a pattern that matches both files the command writes for a split
P12 == Pattern(<<"_", "o">>, FALSE, FALSE)   \* _o

\* the paths (join(output_location, f)) of a set of names of td, as a list
PathsOf(names) == LET q == SeqOfSet(names) IN [k \in DOMAIN q |-> Path(TD, q[k])]

\* split_specific_files: the files whose name contains split_id
IdentityFilter(file_paths, i) ==
    SelectSeq(file_paths, LAMBDA f : Contains(SplitId(i), basename(f)))

\* A list whose order nothing reads is kept as a bag: element -> number of
\* occurrences.
BagAdd(b, x) ==
    IF x \in DOMAIN b THEN [b EXCEPT ![x] = @ + 1] ELSE Put(b, x, 1)

RECURSIVE BagAddSeq(_, _)
BagAddSeq(b, q) ==
    IF q = <<>> THEN b ELSE BagAddSeq(BagAdd(b, Head(q)), Tail(q))

RECURSIVE SeqOfBag(_)
\* the elements of a bag as a list, each as often as it occurs
SeqOfBag(b) ==
    IF DOMAIN b = {} THEN <<>>
    ELSE LET x == CHOOSE y \in DOMAIN b : TRUE
         IN  [k \in 1..b[x] |-> x]
             \o SeqOfBag([y \in DOMAIN b \ {x} |-> b[y]])

\* a faulty Extend: the list of the category is replaced, not extended
ExtendOverwrite(all, grouped) ==
    [g \in DOMAIN all |->
        IF g \in DOMAIN grouped THEN BagAddSeq(<<>>, grouped[g]) ELSE all[g]]

\* all_grouped_files[group_idx].extend(files) for every group of grouped_files
Extend(all, grouped) ==
    [g \in DOMAIN all |->
        IF g \in DOMAIN grouped THEN BagAddSeq(all[g], grouped[g]) ELSE all[g]]

\* a faulty GroupNamesMismatch: the count is compared only when too few
\* names are given
GroupNamesMismatchTooFew(c) ==
    c.group_names # 0 /\ c.group_names < Len(c.regex_patterns)

\* group_names and len(group_names) != len(regex_patterns); group_names is
\* modelled by its length, 0 when --output-group-names is not given
GroupNamesMismatch(c) ==
    c.group_names # 0 /\ c.group_names # Len(c.regex_patterns)

\* w: the worker thread that is working on the split (0: none, or the main
\* thread)
NewTask == [st |-> "queued", before |-> {}, rc |-> -1, new |-> <<>>,
            res |-> [ok |-> FALSE], w |-> 0]

\* tdCreated: the workspace was created; loaded: the input table was loaded;
\* launches: per split, how often its command was started; creator: the split
\* whose command created a file; dBefore: per running split, the listing of
\* the command output directory when files_before was taken; attr: per
\* split of a sequential run, whether the files execute_command returned are
\* the entries of the command output directory that appeared between its two
\* snapshots
\* chunkSamples: per split, the sample ids of its chunk file; calls: per
\* split, how often execute_command was entered for it; raisedDuring: the
\* splits that were not finished when the main thread raised in the with
\* block of the executor
NoHist == [tdCreated |-> FALSE, loaded |-> FALSE, launches |-> <<>>,
           creator |-> <<>>, dBefore |-> <<>>, attr |-> <<>>,
           chunkSamples |-> <<>>, calls |-> <<>>, raisedDuring |-> {}]

RunStart(c) ==
    /\ cfg = c
    /\ pc = "validate" /\ exc = None
    /\ dirs = {} /\ files = <<>> /\ splitFps = <<>> /\ cur = 0
    /\ task = <<>> /\ allGrouped = <<>> /\ exitCode = None
    /\ hist = NoHist
    /\ pin = [kind |-> "none"] /\ pout = [set |-> FALSE]

\* lines 308-315: validation of the group names
Validate ==
    /\ pc = "validate"
    /\ IF GroupNamesMismatch(cfg)
       THEN pc' = "exited" /\ exitCode' = 1
       ELSE pc' = "mkdirs" /\ UNCHANGED exitCode
    /\ UNCHANGED <<cfg, exc, dirs, files, splitFps, cur, task, allGrouped,
                   hist, pin, pout>>

\* lines 317-335: the final output directory and the workspace are created
CreateWorkspace ==
    /\ pc = "mkdirs"
    /\ dirs' = dirs \cup {FINAL, TD}
    /\ hist' = [hist EXCEPT !.tdCreated = TRUE]
    /\ pc' = "partition"
    /\ UNCHANGED <<cfg, exc, files, splitFps, cur, task, allGrouped,
                   exitCode, pin, pout>>

\* line 339 and lines 204-228: partition_table, and line 342
PartitionTable ==
    /\ pc = "partition"
    /\ IF ~cfg.readable
       THEN /\ exc' = "load_table" /\ pc' = "finally"
            /\ UNCHANGED <<files, splitFps, cur, task, allGrouped, hist>>
       ELSE \E ord \in ClusterOrders(cfg.table) :
            LET chunks == ChunkTables(cfg.table, cfg.max_samples, ord)
                n == Len(chunks)
            IN  /\ files' = [q \in DOMAIN files
                                \cup {Path(TD, SplitFileName(i)) : i \in 1..n} |->
                               IF q \in DOMAIN files THEN files[q]
                               ELSE chunks[CHOOSE i \in 1..n :
                                            q = Path(TD, SplitFileName(i))]]
                /\ splitFps' = [i \in 1..n |-> Path(TD, SplitFileName(i))]
                /\ task' = [i \in 1..n |-> NewTask]
                /\ allGrouped' = [g \in 0..(Len(cfg.regex_patterns) - 1) |-> <<>>]
                /\ hist' = [hist EXCEPT !.loaded = TRUE,
                                        !.launches = [i \in 1..n |-> 0],
                                        !.calls = [i \in 1..n |-> 0],
                                        !.dBefore = [i \in 1..n |-> {}],
                                        !.attr = [i \in 1..n |-> "none"],
                                        !.chunkSamples =
                                            [i \in 1..n |-> SampleSet(chunks[i])]]
                /\ cur' = IF n = 0 THEN 0 ELSE 1
                /\ pc' = IF n = 0 THEN "output"
                         ELSE IF cfg.num_threads = 1 THEN "seq" ELSE "pool"
                /\ UNCHANGED exc
    /\ UNCHANGED <<cfg, dirs, exitCode, pin, pout>>

\* the history after the command of split i ran with the given outcome
Launched(h, c, i, outcome) ==
    LET made == IF outcome = "fail" THEN {}
                ELSE {q \in CommandOutputs(c, i) : q \notin DOMAIN h.creator}
    IN  [h EXCEPT !.launches[i] = @ + 1,
                  !.creator = [q \in DOMAIN h.creator \cup made |->
                                 IF q \in DOMAIN h.creator THEN h.creator[q] ELSE i]]

\* subprocess.run(cmd, cwd=working_dir): the file system after the command of
\* split i ended with the given outcome
AfterCommand(c, fs, sp, i, outcome) ==
    IF outcome = "fail" THEN fs
    ELSE PutAll(fs, CommandOutputs(c, i), fs[sp[i]])

\* lines 350-354 and 75-83 (246 and 75-83 in a worker): the command output
\* directory is made and td's listing is taken as files_before
SnapshotBy(i, w) ==
    /\ dirs' = dirs \cup {CmdOutputLoc(cfg.command_output_location)}
    /\ task' = [task EXCEPT ![i].st = "snap",
                            ![i].before = ListDir(dirs', files, TD),
                            ![i].w = w]
    /\ hist' = [hist EXCEPT !.calls[i] = @ + 1,
                            !.dBefore[i] =
                    ListDir(dirs', files, CmdOutputLoc(cfg.command_output_location))]

Snapshot(i) == SnapshotBy(i, 0)

\* lines 95-104: the paths of the entries of td that are not in files_before
NewFilePaths(i) == PathsOf(ListDir(dirs, files, TD) \ task[i].before)

\* the history once execute_command has returned output_files for split i
Attributed(h, i, output_files) ==
    LET d == CmdOutputLoc(cfg.command_output_location)
        appeared == ListDir(dirs, files, d) \ h.dBefore[i]
    IN  [h EXCEPT !.dBefore[i] = {},
                  !.attr[i] =
                      IF /\ \A f \in Range(output_files) : f.dir = d
                         /\ {f.name : f \in Range(output_files)} = appeared
                      THEN "same" ELSE "differs"]

-----------------------------------------------------------------------------
(* Sequential processing, lines 344-376 *)

SeqSnapshot ==
    /\ pc = "seq" /\ task[cur].st = "queued"
    /\ Snapshot(cur)
    /\ UNCHANGED <<cfg, pc, exc, files, splitFps, cur, allGrouped, exitCode,
                   pin, pout>>

\* lines 85-89; an error raised by shlex.split or by the launch is not caught
SeqRun ==
    /\ pc = "seq" /\ task[cur].st = "snap"
    /\ IF ~cfg.launch
       THEN /\ exc' = "launch" /\ pc' = "finally"
            /\ UNCHANGED <<files, task, hist>>
       ELSE \E outcome \in Outcomes(cfg, cur) :
            /\ files' = AfterCommand(cfg, files, splitFps, cur, outcome)
            /\ task' = [task EXCEPT ![cur].st = "ran",
                                    ![cur].rc = IF outcome = "ok" THEN 0 ELSE 1]
            /\ hist' = Launched(hist, cfg, cur, outcome)
            /\ UNCHANGED <<exc, pc>>
    /\ UNCHANGED <<cfg, dirs, splitFps, cur, allGrouped, exitCode, pin, pout>>

\* the loop index after split cur, and the position after the last split
SeqAdvance ==
    /\ cur' = IF cur = Len(splitFps) THEN 0 ELSE cur + 1
    /\ pc' = IF cur = Len(splitFps) THEN "output" ELSE "seq"

\* lines 91-104 and 367-376
SeqFinish ==
    /\ pc = "seq" /\ task[cur].st = "ran"
    /\ IF task[cur].rc # 0
       THEN /\ task' = [task EXCEPT ![cur].st = "collected", ![cur].before = {}]
            /\ hist' = [hist EXCEPT !.dBefore[cur] = {}]
            /\ SeqAdvance
            /\ UNCHANGED <<allGrouped, exc>>
       ELSE LET output_files == NewFilePaths(cur) IN
            /\ hist' = Attributed(hist, cur, output_files)
            /\ IF CompileRaises(cfg.regex_patterns)
               THEN /\ exc' = "re.compile" /\ pc' = "finally"
                    /\ task' = [task EXCEPT ![cur].new = output_files,
                                            ![cur].before = {}]
                    /\ UNCHANGED <<allGrouped, cur>>
               ELSE LET grouped_files ==
                            match_output_files(output_files, cfg.regex_patterns)
                    IN  /\ task' = [task EXCEPT
                                ![cur].st = "collected",
                                ![cur].before = {},
                                ![cur].new = output_files,
                                ![cur].res = [ok |-> TRUE, grouped |-> grouped_files]]
                        /\ allGrouped' = Extend(allGrouped, grouped_files)
                        /\ SeqAdvance
                        /\ UNCHANGED exc
    /\ UNCHANGED <<cfg, dirs, files, splitFps, exitCode, pin, pout>>

-----------------------------------------------------------------------------
(* Parallel processing, lines 377-411 and 230-280 *)

Running == {i \in DOMAIN task : task[i].st \in {"snap", "ran"}}

\* a free worker takes the next split of the queue and runs
\* process_single_split up to the files_before snapshot
WorkerStart(i) ==
    /\ pc = "pool" /\ task[i].st = "queued"
    /\ \A j \in 1..(i - 1) : task[j].st # "queued"
    /\ Cardinality(Running) < cfg.num_threads
    /\ Snapshot(i)
    /\ UNCHANGED <<cfg, pc, exc, files, splitFps, cur, allGrouped, exitCode,
                   pin, pout>>

\* lines 85-89; an error raised by the launch is caught at line 277
WorkerRun(i) ==
    /\ pc = "pool" /\ task[i].st = "snap"
    /\ IF ~cfg.launch
       THEN /\ task' = [task EXCEPT ![i].st = "finished", ![i].before = {}]
            /\ hist' = [hist EXCEPT !.dBefore[i] = {}]
            /\ UNCHANGED files
       ELSE \E outcome \in Outcomes(cfg, i) :
            /\ files' = AfterCommand(cfg, files, splitFps, i, outcome)
            /\ task' = [task EXCEPT ![i].st = "ran",
                                    ![i].rc = IF outcome = "ok" THEN 0 ELSE 1]
            /\ hist' = Launched(hist, cfg, i, outcome)
    /\ UNCHANGED <<cfg, pc, exc, dirs, splitFps, cur, allGrouped, exitCode,
                   pin, pout>>

\* a faulty WorkerFinish: a split whose command failed is queued again
WorkerFinishRetry(i) ==
    /\ pc = "pool" /\ task[i].st = "ran"
    /\ task[i].rc # 0
    /\ task' = [task EXCEPT ![i].st = "queued", ![i].before = {}, ![i].w = 0]
    /\ hist' = [hist EXCEPT !.dBefore[i] = {}]
    /\ UNCHANGED <<cfg, pc, exc, dirs, files, splitFps, cur, allGrouped,
                   exitCode, pin, pout>>

\* a faulty WorkerFinish: a worker whose command failed never returns
WorkerFinishOnSuccessOnly(i) ==
    /\ pc = "pool" /\ task[i].st = "ran"
    /\ task[i].rc = 0
    /\ LET output_files == NewFilePaths(i)
           split_specific_files == IdentityFilter(output_files, i)
       IN  /\ hist' = [hist EXCEPT !.dBefore[i] = {}]
           /\ task' = [task EXCEPT
                   ![i].st = "finished",
                   ![i].before = {}, ![i].w = 0,
                   ![i].new = split_specific_files,
                   ![i].res =
                       IF CompileRaises(cfg.regex_patterns)
                       THEN [ok |-> FALSE]
                       ELSE [ok |-> TRUE,
                             grouped |-> match_output_files(
                                 split_specific_files, cfg.regex_patterns)]]
    /\ UNCHANGED <<cfg, pc, exc, dirs, files, splitFps, cur, allGrouped,
                   exitCode, pin, pout>>

\* lines 91-104 and 258-280: the worker returns (i, grouped_files) or (i, None)
WorkerFinish(i) ==
    /\ pc = "pool" /\ task[i].st = "ran"
    /\ IF task[i].rc # 0
       THEN /\ task' = [task EXCEPT ![i].st = "finished", ![i].before = {},
                                    ![i].w = 0]
            /\ hist' = [hist EXCEPT !.dBefore[i] = {}]
       ELSE LET output_files == NewFilePaths(i)
                split_specific_files == IdentityFilter(output_files, i)
            IN  /\ hist' = [hist EXCEPT !.dBefore[i] = {}]
                /\ task' = [task EXCEPT
                        ![i].st = "finished",
                        ![i].before = {}, ![i].w = 0,
                        ![i].new = split_specific_files,
                        ![i].res =
                            IF CompileRaises(cfg.regex_patterns)
                            THEN [ok |-> FALSE]
                            ELSE [ok |-> TRUE,
                                  grouped |-> match_output_files(
                                      split_specific_files, cfg.regex_patterns)]]
    /\ UNCHANGED <<cfg, pc, exc, dirs, files, splitFps, cur, allGrouped,
                   exitCode, pin, pout>>

RECURSIVE FoldResults(_, _, _)
\* lines 400-408 for the futures i, i + 1, ...: a result that is not None
\* is folded into all_grouped_files
FoldResults(all, t, i) ==
    IF i > Len(t) THEN all
    ELSE FoldResults(IF t[i].res.ok THEN Extend(all, t[i].res.grouped) ELSE all,
                     t, i + 1)

\* lines 398-408: the as_completed loop of the main thread. It writes
\* all_grouped_files only, which no worker reads, and it ends when the last
\* future has completed; its iterations are one step, and the order in which
\* they take the futures does not show in a bag.
Collect ==
    /\ pc = "pool"
    /\ \A i \in DOMAIN task : task[i].st = "finished"
    /\ task' = [i \in DOMAIN task |-> [task[i] EXCEPT !.st = "collected"]]
    /\ allGrouped' = FoldResults(allGrouped, task, 1)
    /\ UNCHANGED <<cfg, pc, exc, dirs, files, splitFps, cur, exitCode, hist,
                   pin, pout>>

\* lines 398-408, one iteration: as_completed yields a future that has
\* completed, in whatever order the futures complete, while other workers may
\* still be running, and its result is folded into all_grouped_files
CollectOne(i) ==
    /\ pc = "pool" /\ exc = None /\ task[i].st = "finished"
    /\ task' = [task EXCEPT ![i].st = "collected"]
    /\ allGrouped' = IF task[i].res.ok
                     THEN Extend(allGrouped, task[i].res.grouped)
                     ELSE allGrouped
    /\ UNCHANGED <<cfg, pc, exc, dirs, files, splitFps, cur, exitCode, hist,
                   pin, pout>>

-----------------------------------------------------------------------------
(* The same steps with the worker threads told apart and with the command
   taking time: subprocess.run starts the process and blocks the calling
   thread until the process has terminated *)

\* ThreadPoolExecutor(max_workers=num_threads), line 392
Workers == 1..cfg.num_threads

\* a faulty Busy: a worker counts as busy only while its command runs
BusyInCommandOnly(w) == {i \in DOMAIN task :
                            task[i].w = w /\ task[i].st = "cmd"}

\* the splits worker w is in the middle of
Busy(w) == {i \in DOMAIN task :
               task[i].w = w /\ task[i].st \in {"snap", "cmd", "ran"}}

\* the splits whose command process has been started and has not terminated
InFlight == {i \in DOMAIN task : task[i].st = "cmd"}

\* a faulty PoolTake: an idle worker takes any queued split
PoolTakeAny(i, w) ==
    /\ pc = "pool" /\ task[i].st = "queued"
    /\ Busy(w) = {}
    /\ SnapshotBy(i, w)
    /\ UNCHANGED <<cfg, pc, exc, files, splitFps, cur, allGrouped, exitCode,
                   pin, pout>>

\* an idle worker thread takes the next work item of the executor's queue
\* and runs process_single_split up to the files_before snapshot
PoolTake(i, w) ==
    /\ pc = "pool" /\ task[i].st = "queued"
    /\ \A j \in 1..(i - 1) : task[j].st # "queued"
    /\ Busy(w) = {}
    /\ SnapshotBy(i, w)
    /\ UNCHANGED <<cfg, pc, exc, files, splitFps, cur, allGrouped, exitCode,
                   pin, pout>>

\* line 85, first half: the process of split i is started; an error raised
\* by shlex.split or by the launch ends the run in the main thread and is
\* caught at line 277 in a worker
CommandStart(i) ==
    /\ pc \in {"seq", "pool"} /\ task[i].st = "snap"
    /\ pc = "seq" => i = cur
    /\ IF cfg.launch
       THEN /\ task' = [task EXCEPT ![i].st = "cmd"]
            /\ UNCHANGED <<exc, pc, hist>>
       ELSE IF pc = "seq"
       THEN /\ exc' = "launch" /\ pc' = "finally"
            /\ UNCHANGED <<task, hist>>
       ELSE /\ task' = [task EXCEPT ![i].st = "finished", ![i].before = {},
                                    ![i].w = 0]
            /\ hist' = [hist EXCEPT !.dBefore[i] = {}]
            /\ UNCHANGED <<exc, pc>>
    /\ UNCHANGED <<cfg, dirs, files, splitFps, cur, allGrouped, exitCode,
                   pin, pout>>

\* lines 85-89, second half: the process of split i terminates and
\* subprocess.run returns
CommandEnd(i) ==
    /\ pc \in {"seq", "pool"} /\ task[i].st = "cmd"
    /\ \E outcome \in Outcomes(cfg, i) :
         /\ files' = AfterCommand(cfg, files, splitFps, i, outcome)
         /\ task' = [task EXCEPT ![i].st = "ran",
                                 ![i].rc = IF outcome = "ok" THEN 0 ELSE 1]
         /\ hist' = Launched(hist, cfg, i, outcome)
    /\ UNCHANGED <<cfg, pc, exc, dirs, splitFps, cur, allGrouped, exitCode,
                   pin, pout>>

\* a faulty PoolExit: the with block is left once every worker has returned,
\* whether or not its result was taken
PoolExitUncollected ==
    /\ pc = "pool" /\ exc = None
    /\ \A i \in DOMAIN task : task[i].st \in {"finished", "collected"}
    /\ pc' = "output" /\ cur' = 0
    /\ UNCHANGED <<cfg, exc, dirs, files, splitFps, task, allGrouped,
                   exitCode, hist, pin, pout>>

\* line 392: the with block ends once every future was collected and the
\* executor has shut down
PoolExit ==
    /\ pc = "pool" /\ exc = None
    /\ \A i \in DOMAIN task : task[i].st = "collected"
    /\ pc' = "output" /\ cur' = 0
    /\ UNCHANGED <<cfg, exc, dirs, files, splitFps, task, allGrouped,
                   exitCode, hist, pin, pout>>

\* an exception that is not caught at line 409 is raised in the main thread
\* inside the with block (a KeyboardInterrupt, or an error of the print at
\* line 411) while the workers go on
MainRaises ==
    /\ pc = "pool" /\ exc = None
    /\ exc' = "interrupt"
    /\ hist' = [hist EXCEPT !.raisedDuring =
                    {i \in DOMAIN task : task[i].st \notin {"finished", "collected"}}]
    /\ UNCHANGED <<cfg, pc, dirs, files, splitFps, cur, task, allGrouped,
                   exitCode, pin, pout>>

\* a faulty ShutdownExit: the executor is shut down without waiting for the
\* workers
ShutdownExitNoWait ==
    /\ pc = "pool" /\ exc # None
    /\ pc' = "finally"
    /\ UNCHANGED <<cfg, exc, dirs, files, splitFps, cur, task, allGrouped,
                   exitCode, hist, pin, pout>>

\* line 392 with an exception propagating: the with block's exit calls
\* shutdown(wait=True), which lets the workers finish the queue and joins
\* them; then the exception goes on to the finally clause
ShutdownExit ==
    /\ pc = "pool" /\ exc # None
    /\ \A i \in DOMAIN task : task[i].st \in {"finished", "collected"}
    /\ pc' = "finally"
    /\ UNCHANGED <<cfg, exc, dirs, files, splitFps, cur, task, allGrouped,
                   exitCode, hist, pin, pout>>

-----------------------------------------------------------------------------
(* Output, lines 413-454, one category per step, and cleanup, 456-460 *)

\* the position after category cur
OutputAdvance ==
    /\ cur' = cur + 1
    /\ pc' = IF cur + 1 >= Len(cfg.regex_patterns) THEN "finally" ELSE "output"

\* lines 415-423: the files of the category that exist are copied
CopyGroup ==
    /\ pc = "output" /\ cfg.no_join /\ cur < Len(cfg.regex_patterns)
    /\ LET there == SelectSeq(SeqOfBag(allGrouped[cur]),
                               LAMBDA f : f \in DOMAIN files)
           dst(f) == Path(FINAL, CopiedName(cur, f))
       IN  files' = [q \in DOMAIN files \cup {dst(f) : f \in Range(there)} |->
                        IF \E f \in Range(there) : q = dst(f)
                        THEN files[CHOOSE f \in Range(there) : q = dst(f)]
                        ELSE files[q]]
    /\ OutputAdvance
    /\ UNCHANGED <<cfg, exc, dirs, splitFps, task, allGrouped, exitCode, hist,
                   pin, pout>>

\* lines 426-454: the files of the category are joined and the table saved
MergeGroup ==
    /\ pc = "output" /\ ~cfg.no_join /\ cur < Len(cfg.regex_patterns)
    /\ IF allGrouped[cur] = <<>>
       THEN OutputAdvance /\ UNCHANGED <<files, exc>>
       ELSE LET joined == join_biom_files(files, SeqOfBag(allGrouped[cur])) IN
            CASE joined.kind = "none" ->
                    OutputAdvance /\ UNCHANGED <<files, exc>>
              [] joined.kind = "raise" ->
                    /\ exc' = "DisjointIDError" /\ pc' = "finally"
                    /\ UNCHANGED <<files, cur>>
              [] joined.kind = "table" ->
                    /\ files' = Put(files, Path(FINAL, MergedName(cur)), joined.table)
                    /\ OutputAdvance
                    /\ UNCHANGED exc
    /\ UNCHANGED <<cfg, dirs, splitFps, task, allGrouped, exitCode, hist,
                   pin, pout>>

\* a faulty CleanupRuns: the workspace is removed only when no exception is
\* propagating
CleanupRunsOnSuccess(e) == e = None

\* the finally clause runs whether or not an exception is propagating
CleanupRuns(e) == TRUE

\* a faulty Cleanup: the process ends with exit code 0 whether or not an
\* exception is propagating
CleanupExitsZero ==
    /\ pc = "finally"
    /\ IF CleanupRuns(exc) /\ TD \in dirs
       THEN dirs' = RmTreeDirs(dirs, TD) /\ files' = RmTreeFiles(files, TD)
       ELSE UNCHANGED <<dirs, files>>
    /\ pc' = "exited"
    /\ exitCode' = 0
    /\ UNCHANGED <<cfg, exc, splitFps, cur, task, allGrouped, hist, pin, pout>>

\* lines 456-460, and the end of the process
Cleanup ==
    /\ pc = "finally"
    /\ IF CleanupRuns(exc) /\ TD \in dirs
       THEN dirs' = RmTreeDirs(dirs, TD) /\ files' = RmTreeFiles(files, TD)
       ELSE UNCHANGED <<dirs, files>>
    /\ pc' = "exited"
    /\ exitCode' = IF exc = None THEN 0 ELSE 1
    /\ UNCHANGED <<cfg, exc, splitFps, cur, task, allGrouped, hist, pin, pout>>

Next ==
    \/ Validate \/ CreateWorkspace \/ PartitionTable
    \/ SeqSnapshot \/ SeqRun \/ SeqFinish
    \/ \E i \in DOMAIN task : WorkerStart(i)
    \/ \E i \in DOMAIN task : WorkerRun(i)
    \/ \E i \in DOMAIN task : WorkerFinish(i)
    \/ Collect \/ PoolExit \/ CopyGroup \/ MergeGroup \/ Cleanup

-----------------------------------------------------------------------------
(* The runs explored *)

\* input tables of a run: o1 is present in every sample; o2 is present in no
\* sample (an empty observation), in the first sample only, or in all
RunTables(n) ==
    {t \in Tables(n) :
        /\ \A k \in 1..n : t.val[<<"o1", k>>] = 1
        /\ \/ \A k \in 1..n : t.val[<<"o2", k>>] = 0
           \/ \A k \in 1..n : t.val[<<"o2", k>>] = (IF k = 1 THEN 1 ELSE 0)
           \/ \A k \in 1..n : t.val[<<"o2", k>>] = 1}

DefaultPatterns == <<P1, P2>>

\* the options of a run that are varied one at a time
Defaults ==
    [readable |-> TRUE, launch |-> TRUE, command_output_location |-> DOT,
     regex_patterns |-> DefaultPatterns, group_names |-> 0,
     suffixes |-> {SFX1, SFX2}]

Option(c) == [f \in DOMAIN Defaults |-> c[f]]

Departures(c) == Cardinality({f \in DOMAIN Defaults : c[f] # Defaults[f]})

AllConfigs(tables, threads, failables) ==
    [kind : {"run"},
     table : tables,
     max_samples : 1..MaxChunk,
     num_threads : threads,
     no_join : BOOLEAN,
     failable : failables,
     readable : BOOLEAN,
     launch : BOOLEAN,
     command_output_location : {DOT, OUT_REL, OUT_ABS},
     regex_patterns : {DefaultPatterns, <<P1>>, <<BadPattern>>, <<P12, P2>>},
     group_names : 0..3,
     suffixes : {{SFX1, SFX2}, {SFX1}}]

Configs ==
    {c \in AllConfigs(UNION {RunTables(n) : n \in 1..MaxRunSamp},
                      1..MaxThreads, {{}, 1..MaxRunSamp}) :
        Departures(c) <= 1}

Init == \E c \in Configs : RunStart(c)

Spec == Init /\ [][Next]_vars

\* Long runs: one sample per split and enough splits for two split
\* identities of different lengths (split_1 and split_10) to coexist.
LongConfigs ==
    {c \in AllConfigs({Table(Identity(LongRunSamp), ObsIds,
                             [q \in Range(ObsIds) \X (1..LongRunSamp) |->
                                 IF q[1] = "o1" THEN 1 ELSE 0])},
                      {1, 2}, {{LongRunSamp \div 2}, {LongRunSamp}}) :
        /\ Option(c) = [Defaults EXCEPT !.regex_patterns = <<P1>>,
                                        !.suffixes = {SFX1}]
        /\ c.max_samples = 1
        /\ ~c.no_join}

InitLong == \E c \in LongConfigs : RunStart(c)

NextLong ==
    \/ Validate \/ CreateWorkspace \/ PartitionTable
    \/ SeqSnapshot \/ SeqRun \/ SeqFinish
    \/ \E i \in DOMAIN task : WorkerStart(i)
    \/ \E i \in DOMAIN task : WorkerRun(i)
    \/ \E i \in DOMAIN task : WorkerFinish(i)
    \/ Collect \/ PoolExit \/ MergeGroup \/ Cleanup

SpecLong == InitLong /\ [][NextLong]_vars

\* Pool runs: the runs of Configs with several threads, with the
\* as_completed loop taken one iteration at a time.
InitPool == \E c \in {d \in Configs : d.num_threads > 1} : RunStart(c)

NextPool ==
    \/ Validate \/ CreateWorkspace \/ PartitionTable
    \/ \E i \in DOMAIN task : WorkerStart(i)
    \/ \E i \in DOMAIN task : WorkerRun(i)
    \/ \E i \in DOMAIN task : WorkerFinish(i)
    \/ \E i \in DOMAIN task : CollectOne(i)
    \/ PoolExit \/ CopyGroup \/ MergeGroup \/ Cleanup

SpecPool == InitPool /\ [][NextPool]_vars

\* Runs with more splits than threads, with the worker threads told apart
\* and the command taking time.
ProcConfigs ==
    {c \in AllConfigs(RunTables(MaxSamp), 1..MaxThreads, {{}, {1}}) :
        /\ Option(c) \in {Defaults, [Defaults EXCEPT !.launch = FALSE]}
        /\ \A k \in 1..MaxSamp : c.table.val[<<"o2", k>>] = 1}

InitProc == \E c \in ProcConfigs : RunStart(c)

NextProc ==
    \/ Validate \/ CreateWorkspace \/ PartitionTable
    \/ SeqSnapshot \/ SeqFinish
    \/ \E i \in DOMAIN task : \E w \in Workers : PoolTake(i, w)
    \/ \E i \in DOMAIN task : CommandStart(i)
    \/ \E i \in DOMAIN task : CommandEnd(i)
    \/ \E i \in DOMAIN task : WorkerFinish(i)
    \/ \E i \in DOMAIN task : CollectOne(i)
    \/ PoolExit \/ CopyGroup \/ MergeGroup \/ Cleanup

SpecProc == InitProc /\ [][NextProc]_vars

\* The runs of SpecProc under the scheduling the code relies on: a thread
\* that can take a step does so in the end, and a command that was started
\* terminates.
\* They are the runs of ProcConfigs with one thread or a pool of two in
\* which the command of the first split may fail.
InitProcLive ==
    \E c \in {d \in ProcConfigs : d.num_threads \in {1, 2} /\ d.failable # {}} :
        RunStart(c)

SpecProcLive == InitProcLive /\ [][NextProc]_vars /\ WF_vars(NextProc)

\* Pool runs in which the main thread may raise inside the with block.
InitAbort == \E c \in {d \in ProcConfigs : d.num_threads > 1} : RunStart(c)

NextAbort ==
    \/ Validate \/ CreateWorkspace \/ PartitionTable
    \/ \E i \in DOMAIN task : \E w \in Workers : PoolTake(i, w)
    \/ \E i \in DOMAIN task : CommandStart(i)
    \/ \E i \in DOMAIN task : CommandEnd(i)
    \/ \E i \in DOMAIN task : WorkerFinish(i)
    \/ \E i \in DOMAIN task : CollectOne(i)
    \/ MainRaises \/ ShutdownExit
    \/ PoolExit \/ CopyGroup \/ MergeGroup \/ Cleanup

SpecAbort == InitAbort /\ [][NextAbort]_vars

-----------------------------------------------------------------------------
(* The pure functions on their own: pin is the input, pout the output. *)

RunIdle ==
    /\ cfg = [kind |-> "none"] /\ pc = "idle" /\ exc = None /\ dirs = {}
    /\ files = <<>> /\ splitFps = <<>> /\ cur = 0 /\ task = <<>>
    /\ allGrouped = <<>> /\ exitCode = None /\ hist = <<>>

SeqsUpTo(S, n) == UNION {[1..k -> S] : k \in 0..n}

\* file paths and patterns match_output_files is tried on
MatchDirs == {<<"/", "t">>, <<"/", "o", "1">>}
MatchNames == {<<"a", "o", "1">>, <<"o", "1", "o", "2">>, <<"b">>}
MatchPaths == {Path(d, n) : d \in MatchDirs, n \in MatchNames}
MatchPatterns ==
    { Pattern(<<"o", "1">>, FALSE, FALSE),   \* o1
      Pattern(<<"o", "1">>, FALSE, TRUE),    \* .*o1$
      Pattern(<<"o", "2">>, FALSE, TRUE),    \* .*o2$
      Pattern(<<"a">>, TRUE, FALSE) }        \* ^a

InitMatch ==
    /\ RunIdle
    /\ pin \in [kind : {"match"},
                file_paths : SeqsUpTo(MatchPaths, MaxFiles),
                regex_patterns : SeqsUpTo(MatchPatterns, 2) \ {<<>>}]
    /\ pout = [set |-> FALSE]

ApplyMatch ==
    /\ ~pout.set
    /\ pout' = [set |-> TRUE,
                val |-> match_output_files(pin.file_paths, pin.regex_patterns)]
    /\ UNCHANGED <<pin, runVars>>

SpecMatch == InitMatch /\ [][ApplyMatch]_vars

InitPart ==
    /\ RunIdle
    /\ \E n \in 0..MaxSamp : \E t \in Tables(n) :
         \E m \in 1..MaxChunk : \E o \in ClusterOrders(t) :
            pin = [kind |-> "part", table |-> t, max_samples |-> m, ord |-> o]
    /\ pout = [set |-> FALSE]

ApplyPart ==
    /\ ~pout.set
    /\ pout' = [set |-> TRUE,
                val |-> ChunkTables(pin.table, pin.max_samples, pin.ord)]
    /\ UNCHANGED <<pin, runVars>>

SpecPart == InitPart /\ [][ApplyPart]_vars

\* cluster_and_order_columns_by_similarity_sparse on its own
InitClust ==
    /\ RunIdle
    /\ \E n \in 0..MaxSamp : \E t \in Tables(n) : \E l \in LinkageResults(n) :
            pin = [kind |-> "clust", table |-> t, link |-> l]
    /\ pout = [set |-> FALSE]

ApplyClust ==
    /\ ~pout.set
    /\ pout' = [set |-> TRUE, val |-> ClusterOrder(pin.table, pin.link)]
    /\ UNCHANGED <<pin, runVars>>

SpecClust == InitClust /\ [][ApplyClust]_vars

(* The command line of one chunk: execute_command's rewriting of the command
   string.  Whitespace is the space character; the extension class
   [a-zA-Z0-9_] is every character of the commands below other than the
   punctuation listed in IsWordChar. *)

PLACEHOLDER == <<"{", "i", "n", "p", "u", "t", "}">>
IsSpace(c) == c = " "
IsWordChar(c) == c \notin {".", "/", "-", " ", "{", "}", "="}

\* s has lit at position p
At(s, p, lit) ==
    p + Len(lit) - 1 <= Len(s) /\ SubSeq(s, p, p + Len(lit) - 1) = lit

From(s, p) == SubSeq(s, p, Len(s))

RECURSIVE RunLen(_, _, _)
\* the length of the longest run of characters of s from position p on that
\* are word characters (word = TRUE) or are not whitespace (word = FALSE)
RunLen(s, p, word) ==
    IF p > Len(s) THEN 0
    ELSE IF (IF word THEN IsWordChar(s[p]) ELSE ~IsSpace(s[p]))
         THEN 1 + RunLen(s, p + 1, word)
         ELSE 0

RECURSIVE SpaceLen(_, _)
SpaceLen(s, p) ==
    IF p <= Len(s) /\ IsSpace(s[p]) THEN 1 + SpaceLen(s, p + 1) ELSE 0

RECURSIVE StrReplace(_, _, _)
\* s.replace(old, new)
StrReplace(s, old, new) ==
    IF s = <<>> THEN <<>>
    ELSE IF At(s, 1, old)
         THEN new \o StrReplace(From(s, Len(old) + 1), old, new)
         ELSE <<s[1]>> \o StrReplace(Tail(s), old, new)

RECURSIVE make_unique_input_extension(_, _)
\* re.sub(r'(\{input\})(\.[a-zA-Z0-9_]+)', ..., command_string): every
\* placeholder followed by a dot and at least one word character gets
\* _<split_id> between the placeholder and the dot
make_unique_input_extension(s, split_id) ==
    LET n == Len(PLACEHOLDER)
        e == RunLen(s, n + 2, TRUE)
    IN  IF s = <<>> THEN <<>>
        ELSE IF At(s, 1, PLACEHOLDER \o <<".">>) /\ e >= 1
             THEN PLACEHOLDER \o <<"_">> \o split_id \o SubSeq(s, n + 1, n + 1 + e)
                      \o make_unique_input_extension(From(s, n + 2 + e), split_id)
             ELSE <<s[1]>> \o make_unique_input_extension(Tail(s), split_id)

\* the alternatives of the flag group of output_pattern, in the order the
\* pattern tries them: the flag and whether whitespace must follow it
OutputFlags ==
    << [flag |-> <<"-", "o">>, space |-> TRUE],
       [flag |-> <<"-", "-", "o", "u", "t", "p", "u", "t">>, space |-> TRUE],
       [flag |-> <<"-", "-", "o", "u", "t">>, space |-> TRUE],
       [flag |-> <<"-", "o">>, space |-> FALSE] >>

\* ([^\s]+\.biom) from position p of s: the greedy match ends with the last
\* .biom of the run of non-space characters that has a character before it;
\* the result is the length of the match, 0 if there is none
BiomMatchLen(s, p) ==
    LET r == RunLen(s, p, FALSE)
        E == {e \in 6..r : SubSeq(s, p + e - 5, p + e - 1) = DOT_BIOM}
    IN  IF E = {} THEN 0 ELSE CHOOSE e \in E : \A f \in E : f <= e

\* output_pattern matched at the head of s by alternative k: the lengths of
\* group 1 and of group 2 (g2 = 0: no match)
FlagMatch(s, k) ==
    LET a  == OutputFlags[k]
        ws == IF a.space THEN SpaceLen(s, Len(a.flag) + 1) ELSE 0
        g1 == Len(a.flag) + ws
    IN  IF At(s, 1, a.flag) /\ (a.space => ws >= 1)
        THEN [g1 |-> g1, g2 |-> BiomMatchLen(s, g1 + 1)]
        ELSE [g1 |-> g1, g2 |-> 0]

RECURSIVE make_unique_output(_, _)
\* re.sub(output_pattern, ..., command_with_input): each match, leftmost
\* first, keeps its flag and has every .biom of the file name removed and
\* _<split_id>.biom appended
make_unique_output(s, split_id) ==
    LET K == {k \in DOMAIN OutputFlags : FlagMatch(s, k).g2 > 0}
        k == CHOOSE x \in K : \A y \in K : x <= y
        m == FlagMatch(s, k)
        filename == SubSeq(s, m.g1 + 1, m.g1 + m.g2)
    IN  IF s = <<>> THEN <<>>
        ELSE IF K # {}
             THEN SubSeq(s, 1, m.g1)
                      \o StrReplace(filename, DOT_BIOM, <<>>)
                      \o <<"_">> \o split_id \o DOT_BIOM
                      \o make_unique_output(From(s, m.g1 + m.g2 + 1), split_id)
             ELSE <<s[1]>> \o make_unique_output(Tail(s), split_id)

\* command_with_input of execute_command(input_file, command_string,
\* split_id = ...); split_id is None when the caller gives none
CommandWithInput(input_file_abs, command_string, split_id) ==
    IF split_id # <<>>
    THEN make_unique_output(
             StrReplace(make_unique_input_extension(command_string, split_id),
                        PLACEHOLDER, input_file_abs),
             split_id)
    ELSE StrReplace(command_string, PLACEHOLDER, input_file_abs)

RECURSIVE ShlexSplit(_)
\* shlex.split of a command without quotes or escapes: its words
ShlexSplit(s) ==
    IF s = <<>> THEN <<>>
    ELSE IF IsSpace(s[1]) THEN ShlexSplit(Tail(s))
    ELSE LET r == RunLen(s, 1, FALSE)
         IN  <<SubSeq(s, 1, r)>> \o ShlexSplit(From(s, r + 1))

\* cmd of execute_command for chunk i of a run: process_single_split gives
\* it the chunk's path in the workspace and split_id = f"split_{i}"
ChunkCmd(command_string, i) ==
    ShlexSplit(CommandWithInput(join(TD, SplitFileName(i)), command_string,
                                SplitId(i)))

\* command strings in the forms the tests and the documentation use, and
\* with the placeholder as the value of other options

CmdBare ==
    <<"x", " ", "{", "i", "n", "p", "u", "t", "}">>

CmdCopy ==
    <<"c", "p", " ", "{", "i", "n", "p", "u", "t", "}", " ", "{", "i", "n", "p", "u", "t", "}", ".", "p", "r", "o", "c", "e", "s", "s", "e", "d">>

CmdShortFlag ==
    <<"x", " ", "-", "i", " ", "{", "i", "n", "p", "u", "t", "}", " ", "-", "o", " ", "o", "u", "t", ".", "b", "i", "o", "m">>

CmdOutputFlag ==
    <<"x", " ", "-", "i", " ", "{", "i", "n", "p", "u", "t", "}", " ", "-", "-", "o", "u", "t", "p", "u", "t", " ", "o", "u", "t", ".", "b", "i", "o", "m">>

CmdOutFlag ==
    <<"x", " ", "-", "i", " ", "{", "i", "n", "p", "u", "t", "}", " ", "-", "-", "o", "u", "t", " ", "o", "u", "t", ".", "b", "i", "o", "m">>

CmdGluedFlag ==
    <<"x", " ", "-", "i", " ", "{", "i", "n", "p", "u", "t", "}", " ", "-", "o", "o", "u", "t", ".", "b", "i", "o", "m">>

CmdRegroup ==
    <<"x", " ", "-", "i", " ", "{", "i", "n", "p", "u", "t", "}", " ", "-", "o", " ", "{", "i", "n", "p", "u", "t", "}", "_", "k", "o", ".", "b", "i", "o", "m">>

CmdOutDir ==
    <<"x", " ", "-", "i", " ", "{", "i", "n", "p", "u", "t", "}", " ", "-", "o", " ", ".">>

CmdInPlace ==
    <<"x", " ", "-", "o", " ", "{", "i", "n", "p", "u", "t", "}">>

CmdLongInput ==
    <<"x", " ", "-", "-", "o", "t", "u", "=", "{", "i", "n", "p", "u", "t", "}", " ", "-", "o", " ", "o", "u", "t", ".", "b", "i", "o", "m">>

Commands ==
    {CmdBare,
     CmdCopy,
     CmdShortFlag,
     CmdOutputFlag,
     CmdOutFlag,
     CmdGluedFlag,
     CmdRegroup,
     CmdOutDir,
     CmdInPlace,
     CmdLongInput}


\* chunk numbers of one and of two digits
ChunkNumbers == {1, 2, 10}

\* execute_command's command line for two chunks of one run
InitCmd ==
    /\ RunIdle
    /\ pin \in [kind : {"cmd"}, command : Commands,
                i : ChunkNumbers, j : ChunkNumbers]
    /\ pout = [set |-> FALSE]

ApplyCmd ==
    /\ ~pout.set
    /\ pout' = [set |-> TRUE,
                val |-> <<ChunkCmd(pin.command, pin.i),
                          ChunkCmd(pin.command, pin.j)>>]
    /\ UNCHANGED <<pin, runVars>>

SpecCmd == InitCmd /\ [][ApplyCmd]_vars

\* join_biom_files on its own: a directory of up to three files, each a
\* table or unparsable, and a list of paths, some of them of no file
JoinNames == {<<"a">>, <<"b">>, <<"c">>}
JoinPaths == {Path(TD, n) : n \in JoinNames}
JoinContents ==
    { Junk,
      Table(<<1>>, <<"o1">>, [q \in {"o1"} \X {1} |-> 1]),
      Table(<<2>>, <<"o1", "o2">>, [q \in {"o1", "o2"} \X {2} |-> 1]),
      Table(<<1, 2>>, <<"o2">>, [q \in {"o2"} \X {1, 2} |-> 1]) }
JoinFileSystems ==
    UNION {[D -> JoinContents] : D \in SUBSET JoinPaths}

InitJoin ==
    /\ RunIdle
    /\ pin \in [kind : {"join"},
                fs : JoinFileSystems,
                input_files : SeqsUpTo(JoinPaths, MaxJoin)]
    /\ pout = [set |-> FALSE]

ApplyJoin ==
    /\ ~pout.set
    /\ pout' = [set |-> TRUE, val |-> join_biom_files(pin.fs, pin.input_files)]
    /\ UNCHANGED <<pin, runVars>>

SpecJoin == InitJoin /\ [][ApplyJoin]_vars

-----------------------------------------------------------------------------
(* Two runs of main() at the same time on one machine. pout holds the state:
   per run its position, its workspace, the listing files_before, the files
   attributed to it and the files its cleanup removed; the workspace
   directories that exist; and the files in them, each with the run that
   wrote it last. *)

TwoRuns == {1, 2}

\* int(time.time()) when a run makes the name of its workspace (line 324)
Seconds == {0, 1}

\* values of random.randint(1000, 9999) (line 324): the ends of its range
RandInts == {1000, 9999}

\* f"safe_cluster_temp_{int(time.time())}_{random.randint(1000, 9999)}"
\* under the base directory, which is the same for both runs
TempDirName(t, x) == [time |-> t, rand |-> x]

NoDir == TempDirName(-1, -1)

CHUNK == <<"s", "p", "l", "i", "t", "_", "1", ".", "b", "i", "o", "m">>
CHUNK_OUT == <<"s", "p", "l", "i", "t", "_", "1", "_", "o", "1">>

\* a file of a workspace and the run that wrote it last
WFile(d, n, r) == [dir |-> d, name |-> n, by |-> r]

NewRun == [pc |-> "start", td |-> NoDir, before |-> {}, got |-> {},
           deleted |-> {}]

\* os.listdir(d), as the files with their writers
FilesIn(st, d) == {f \in st.wfiles : f.dir = d}

\* a write of file n in directory d by run r replaces what was there
Written(st, d, n, r) ==
    {f \in st.wfiles : ~(f.dir = d /\ f.name = n)} \cup {WFile(d, n, r)}

InitTwo ==
    /\ RunIdle
    /\ pin = [kind |-> "two"]
    /\ pout = [set |-> TRUE, run |-> [r \in TwoRuns |-> NewRun],
               wdirs |-> {}, wfiles |-> {}]

\* lines 320-335: the name is made from the clock and a random number and
\* os.makedirs(td, exist_ok=True) succeeds whether or not td exists
TwoMakeWorkspace(r) ==
    /\ pout.run[r].pc = "start"
    /\ \E t \in Seconds : \E x \in RandInts :
         pout' = [pout EXCEPT !.run[r].pc = "partition",
                              !.run[r].td = TempDirName(t, x),
                              !.wdirs = @ \cup {TempDirName(t, x)}]
    /\ UNCHANGED <<pin, runVars>>

\* lines 339 and 215-228: the chunk file is written into td; the write
\* raises when td is gone
TwoPartition(r) ==
    /\ pout.run[r].pc = "partition"
    /\ LET td == pout.run[r].td IN
       IF td \notin pout.wdirs
       THEN pout' = [pout EXCEPT !.run[r].pc = "finally"]
       ELSE pout' = [pout EXCEPT !.run[r].pc = "before",
                                 !.wfiles = Written(pout, td, CHUNK, r)]
    /\ UNCHANGED <<pin, runVars>>

\* lines 354 and 80-83: os.makedirs(cmd_output_loc, exist_ok=True), which is
\* td by default, and files_before
TwoFilesBefore(r) ==
    /\ pout.run[r].pc = "before"
    /\ LET td == pout.run[r].td IN
       pout' = [pout EXCEPT !.run[r].pc = "command",
                            !.run[r].before = FilesIn(pout, td),
                            !.wdirs = @ \cup {td}]
    /\ UNCHANGED <<pin, runVars>>

\* lines 85-94: subprocess.run(cmd, cwd=td) raises when td is gone; the
\* command fails when its input file is gone; otherwise it writes its output
TwoCommand(r) ==
    /\ pout.run[r].pc = "command"
    /\ LET td == pout.run[r].td IN
       IF td \notin pout.wdirs
       THEN pout' = [pout EXCEPT !.run[r].pc = "finally"]
       ELSE IF \A f \in FilesIn(pout, td) : f.name # CHUNK
       THEN pout' = [pout EXCEPT !.run[r].pc = "output"]
       ELSE pout' = [pout EXCEPT !.run[r].pc = "after",
                                 !.wfiles = Written(pout, td, CHUNK_OUT, r)]
    /\ UNCHANGED <<pin, runVars>>

\* lines 95-104: files_after, and the names that are not in files_before
TwoFilesAfter(r) ==
    /\ pout.run[r].pc = "after"
    /\ LET td == pout.run[r].td
           names_before == {f.name : f \in pout.run[r].before}
       IN  pout' = [pout EXCEPT
                !.run[r].pc = "output",
                !.run[r].got = {f \in FilesIn(pout, td) :
                                   f.name \notin names_before}]
    /\ UNCHANGED <<pin, runVars>>

\* lines 413-454: the files attributed to the run are copied or merged
TwoOutput(r) ==
    /\ pout.run[r].pc = "output"
    /\ pout' = [pout EXCEPT !.run[r].pc = "finally"]
    /\ UNCHANGED <<pin, runVars>>

\* lines 456-460: if td exists it is removed with everything in it
TwoCleanup(r) ==
    /\ pout.run[r].pc = "finally"
    /\ LET td == pout.run[r].td IN
       IF td \in pout.wdirs
       THEN pout' = [pout EXCEPT !.run[r].pc = "done",
                                 !.run[r].deleted = FilesIn(pout, td),
                                 !.wdirs = @ \ {td},
                                 !.wfiles = @ \ FilesIn(pout, td)]
       ELSE pout' = [pout EXCEPT !.run[r].pc = "done"]
    /\ UNCHANGED <<pin, runVars>>

NextTwo ==
    \/ \E r \in TwoRuns : TwoMakeWorkspace(r)
    \/ \E r \in TwoRuns : TwoPartition(r)
    \/ \E r \in TwoRuns : TwoFilesBefore(r)
    \/ \E r \in TwoRuns : TwoCommand(r)
    \/ \E r \in TwoRuns : TwoFilesAfter(r)
    \/ \E r \in TwoRuns : TwoOutput(r)
    \/ \E r \in TwoRuns : TwoCleanup(r)

SpecTwo == InitTwo /\ [][NextTwo]_vars

-----------------------------------------------------------------------------
(* Properties of a run *)

IsRun == cfg.kind = "run"
Exited == IsRun /\ pc = "exited"
Categories == 0..(Len(cfg.regex_patterns) - 1)
AllSucceeded ==
    /\ DOMAIN task # {}
    /\ \A i \in DOMAIN task : task[i].rc = 0
FinalFile(g) == Path(FINAL, MergedName(g))

\* the observations of a table with a nonzero entry in some sample
NonEmptyObs(t) == {o \in ObsSet(t) : \E x \in SampleSet(t) : ValueAt(t, o, x) # 0}

\* two tables agree: same samples, same observations, same value everywhere
SameTable(a, b) ==
    /\ SampleSet(a) = SampleSet(b)
    /\ ObsSet(a) = ObsSet(b)
    /\ \A o \in ObsSet(a), x \in SampleSet(a) : ValueAt(a, o, x) = ValueAt(b, o, x)

\* the command writes a file that pattern g matches
CommandFeeds(g) ==
    \E sfx \in cfg.suffixes : Search(cfg.regex_patterns[g + 1], OutName(1, sfx))

\* C1: with num_threads > 1, the file list of split i after the identity
\* filter holds only files that the command of split i created.
C1_NoCrossAttribution ==
    IsRun /\ cfg.num_threads > 1 =>
        \A i \in DOMAIN task : \A f \in Range(task[i].new) :
            f \in DOMAIN hist.creator /\ hist.creator[f] = i

\* C3: when the command copies the chunk file to names the patterns match and
\* every command succeeded, every merged table has the samples, the
\* observations and the values of the input table, whatever the table, the
\* chunk size and the number of threads (stated for the runs that keep the
\* default command output directory, a case of the claim).
C3_PassThroughIdentity ==
    Exited /\ ~cfg.no_join /\ AllSucceeded
           /\ cfg.command_output_location = DOT
           /\ ~CompileRaises(cfg.regex_patterns) =>
        \A g \in Categories : CommandFeeds(g) =>
            /\ FinalFile(g) \in DOMAIN files
            /\ SameTable(files[FinalFile(g)], cfg.table)

\* pattern h matches two of the files the command writes for one split: the
\* category lists two copies of every chunk and its concat raises
TwoFilesPerSplit(c, h) ==
    Cardinality({sfx \in c.suffixes :
                    Search(c.regex_patterns[h + 1], OutName(1, sfx))}) > 1

\* what a run with num_threads = 1 in which every command succeeds leaves in
\* the final output directory for category g: whether a merged table exists,
\* and its sample ids and observation ids
SequentialResult(c, g) ==
    IF /\ c.command_output_location = DOT
       /\ \E sfx \in c.suffixes : Search(c.regex_patterns[g + 1], OutName(1, sfx))
       /\ \A h \in 0..g : ~TwoFilesPerSplit(c, h)
    THEN [exists |-> TRUE, samples |-> SampleSet(c.table),
          obs |-> NonEmptyObs(c.table)]
    ELSE [exists |-> FALSE]

\* the same summary of what the run left for category g
RunResult(g) ==
    IF FinalFile(g) \in DOMAIN files
    THEN [exists |-> TRUE, samples |-> SampleSet(files[FinalFile(g)]),
          obs |-> ObsSet(files[FinalFile(g)])]
    ELSE [exists |-> FALSE]

\* SequentialResult is what the sequential runs produce
SequentialResultIsRight ==
    Exited /\ exc = None /\ cfg.num_threads = 1 /\ ~cfg.no_join /\ AllSucceeded =>
        \A g \in Categories : RunResult(g) = SequentialResult(cfg, g)

\* C4: a run with num_threads > 1 leaves, for every category, a merged table
\* with the same sample ids and observation ids as the run with
\* num_threads = 1 on the same input (and one exists iff the other does),
\* whatever the completion order.
C4_ConcurrencyEquivalence ==
    Exited /\ cfg.num_threads > 1 /\ ~cfg.no_join /\ AllSucceeded
           /\ ~CompileRaises(cfg.regex_patterns) =>
        \A g \in Categories : RunResult(g) = SequentialResult(cfg, g)

\* C5: if one command exits non-zero and the others succeed, every file a
\* successful command created that matches a pattern is listed in that
\* category and its samples are in the category's merged table, and the run
\* exits with code 0, with one thread or several and whichever split fails
\* (stated for the runs that keep the default command output directory, a
\* case of the claim).
C5_OneFailureTolerated ==
    Exited /\ cfg.launch /\ ~CompileRaises(cfg.regex_patterns)
           /\ cfg.command_output_location = DOT
           /\ Cardinality({i \in DOMAIN task : task[i].rc = 1}) = 1
           /\ Cardinality({i \in DOMAIN task : task[i].rc = 0}) = Len(task) - 1 =>
        /\ exitCode = 0
        /\ \A f \in DOMAIN hist.creator : \A g \in Categories :
             task[hist.creator[f]].rc = 0 /\ Search(cfg.regex_patterns[g + 1], f.name) =>
                /\ f \in DOMAIN allGrouped[g]
                /\ ~cfg.no_join =>
                     /\ FinalFile(g) \in DOMAIN files
                     /\ hist.chunkSamples[hist.creator[f]]
                            \subseteq SampleSet(files[FinalFile(g)])

\* C6: no category lists a file created by a command that exited non-zero.
C6_FailedContributesNothing ==
    IsRun => \A g \in DOMAIN allGrouped : \A f \in DOMAIN allGrouped[g] :
        f \in DOMAIN hist.creator => task[hist.creator[f]].rc = 0

\* C7: once the workspace was created, it does not exist when the run has
\* ended, whether the run ended normally or by an exception.
C7_WorkspaceRemoved ==
    Exited /\ hist.tdCreated =>
        /\ \A d \in dirs : ~Under(d, TD)
        /\ \A q \in DOMAIN files : ~Under(q.dir, TD)

\* C7 witness: a run that wrote its chunk files and ended by an exception
C7_Witness ==
    /\ Exited /\ hist.tdCreated /\ exc # None
    /\ splitFps # <<>>
    /\ \E i \in DOMAIN task : hist.launches[i] > 0

\* C8: when group names are supplied in a number other than the number of
\* patterns, the run ends with exit code 1 and never creates the workspace,
\* loads the input table, writes a chunk or starts a command.
C8_ValidationFirst ==
    IsRun /\ cfg.group_names # 0 /\ cfg.group_names # Len(cfg.regex_patterns) =>
        /\ pc \in {"validate", "exited"}
        /\ pc = "exited" => exitCode = 1
        /\ ~hist.tdCreated /\ dirs = {}
        /\ ~hist.loaded
        /\ splitFps = <<>> /\ files = <<>>
        /\ task = <<>>

\* C8 witness: a run given three names for two patterns has ended
C8_Witness ==
    /\ Exited
    /\ cfg.group_names = 3 /\ Len(cfg.regex_patterns) = 2

\* C9: the files attributed to a split whose command succeeded are the
\* entries of the command output directory that appeared between the two
\* snapshots (stated for the sequential runs).
C9_AttributionInOutputDir ==
    IsRun /\ cfg.num_threads = 1 =>
        \A i \in DOMAIN task : hist.attr[i] # "differs"

\* the main thread has reached the output phase of a merge-mode run: it is
\* in it, or it has left it for the finally clause
MergePhaseOver ==
    /\ IsRun /\ ~cfg.no_join /\ pc = "finally"
    /\ exc \notin {"load_table", "launch", "re.compile"}

\* file f exists and load_table can parse it
Loads(f) == f \in DOMAIN files /\ IsTable(files[f])

\* C13: in merge mode, when the merge phase is over, the output file of a
\* category has been written exactly when one of the files listed for the
\* category loads (so a category with an empty list, or with no loadable
\* file, has no output file), and no error is propagating: the run will exit
\* with code 0.
C13_EmptyCategoryNoOutput ==
    MergePhaseOver =>
        /\ exc = None
        /\ \A g \in Categories :
             FinalFile(g) \in DOMAIN files <=>
                 \E f \in DOMAIN allGrouped[g] : Loads(f)

\* the files of the final output directory
FinalFiles == {q \in DOMAIN files : q.dir = FINAL}

\* C14: one output mode per run. In merge mode the final output directory
\* holds nothing but the merged tables prefix_group.biom, at most one per
\* category, and no copy of a per-split file. With --no-join it holds nothing
\* but copies prefix_group_basename(f) of files f listed for category group,
\* never a merged table, and once the copy phase is over every listed file
\* that exists has its copy, with the same content.
C14_OneOutputMode ==
    IsRun =>
        /\ ~cfg.no_join =>
             \A q \in FinalFiles : \E g \in Categories : q = FinalFile(g)
        /\ cfg.no_join =>
             /\ \A g \in Categories : FinalFile(g) \notin DOMAIN files
             /\ \A q \in FinalFiles :
                  \E g \in Categories : \E f \in DOMAIN allGrouped[g] :
                      /\ q.name = CopiedName(g, f)
                      /\ f \in DOMAIN files => files[q] = files[f]
             /\ pc = "finally" /\ exc = None =>
                  \A g \in Categories : \A f \in DOMAIN allGrouped[g] :
                      f \in DOMAIN files =>
                          /\ Path(FINAL, CopiedName(g, f)) \in DOMAIN files
                          /\ files[Path(FINAL, CopiedName(g, f))] = files[f]

\* C14 witness: a --no-join run of two splits and two categories whose copy
\* phase is over: four copies in the final output directory
C14_Witness ==
    /\ IsRun /\ cfg.no_join /\ pc = "finally" /\ exc = None
    /\ Len(splitFps) = 2
    /\ Cardinality(FinalFiles) = 4

\* C14 witness (merge mode): two merged tables, one per category, of a run
\* of two splits
C14_WitnessMerge ==
    /\ IsRun /\ ~cfg.no_join /\ pc = "finally" /\ exc = None
    /\ Len(splitFps) = 2
    /\ FinalFiles = {FinalFile(0), FinalFile(1)}

\* C15: at merge time no category lists a file twice, and no two files
\* listed for a category carry the same sample, whatever the patterns, the
\* number of threads and the interleaving (the command copies its chunk, so
\* it keeps the chunk's samples).
C15_DisjointAtMerge ==
    IsRun /\ ~cfg.no_join /\ pc = "output" =>
        \A g \in Categories :
            /\ \A f \in DOMAIN allGrouped[g] : allGrouped[g][f] = 1
            /\ \A f1, f2 \in DOMAIN allGrouped[g] :
                 f1 # f2 /\ Loads(f1) /\ Loads(f2) =>
                     SampleSet(files[f1]) \cap SampleSet(files[f2]) = {}

\* C16: a failure of one category's merge stays in that category: when the
\* merge phase is over, every category whose own files join into a table has
\* its output file, and no exception is propagating, so the run will not
\* exit non-zero (stated for the runs that reach the merge phase).
C16_MergeFailureIsolated ==
    MergePhaseOver =>
        /\ exc = None
        /\ \A g \in Categories :
             join_biom_files(files, SeqOfBag(allGrouped[g])).kind = "table" =>
                 FinalFile(g) \in DOMAIN files

\* a split whose invocation failed: its command exited non-zero, or starting
\* it raised
InvocationFailed(i) == task[i].rc = 1 \/ ~cfg.launch

\* C17: a split whose invocation fails, by a non-zero return code or by an
\* error raised while the command is tokenized or launched, is skipped and
\* the run goes on: no such error ever propagates in the main thread, and
\* the run reaches the merge/copy phase with every split dispatched and
\* handled, with one thread as with several.
C17_FailedChunkSkipped ==
    IsRun =>
        /\ exc # "launch"
        /\ pc = "output" => \A i \in DOMAIN task : task[i].st = "collected"
        /\ Exited /\ splitFps # <<>> /\ ~CompileRaises(cfg.regex_patterns)
              /\ (\E i \in DOMAIN task : InvocationFailed(i)) =>
                 \A i \in DOMAIN task : task[i].st = "collected"

\* how often file f occurs in category g of the results of the splits whose
\* future the main thread has taken
CollectedCount(g, f) ==
    LET taken == {i \in DOMAIN task :
                     /\ task[i].st = "collected" /\ task[i].res.ok
                     /\ g \in DOMAIN task[i].res.grouped}
    IN  Cardinality(UNION {
            {<<i, k>> : k \in {j \in DOMAIN task[i].res.grouped[g] :
                                  task[i].res.grouped[g][j] = f}} :
            i \in taken})

\* the files reported for category g by some split (taken or not)
ReportedFiles(g) ==
    UNION {Range(task[i].res.grouped[g]) :
              i \in {j \in DOMAIN task : task[j].res.ok
                                         /\ g \in DOMAIN task[j].res.grouped}}

\* C18: with num_threads > 1, all_grouped_files is changed by the collecting
\* main thread only and no result is lost: at every moment the list of a
\* category holds exactly the files of that category of the results taken so
\* far, each as often as the results report it, whatever the order in which
\* the futures complete; and when the pool has shut down every result has
\* been taken.
C18_AggregationExact ==
    IsRun /\ cfg.num_threads > 1 /\ task # <<>> =>
        /\ \A g \in Categories :
             /\ DOMAIN allGrouped[g] \subseteq ReportedFiles(g)
             /\ \A f \in ReportedFiles(g) :
                  IF f \in DOMAIN allGrouped[g]
                  THEN allGrouped[g][f] = CollectedCount(g, f)
                  ELSE CollectedCount(g, f) = 0
        /\ pc # "pool" => \A i \in DOMAIN task : task[i].st = "collected"

\* C18 witness: the second split completed first and its result, with files
\* in two categories, was taken while the first split's command is still
\* running
C18_Witness ==
    /\ IsRun /\ cfg.num_threads > 1 /\ pc = "pool"
    /\ Len(task) = 2
    /\ task[1].st = "ran"
    /\ task[2].st = "collected" /\ task[2].res.ok
    /\ \A g \in Categories : allGrouped[g] # <<>>
    /\ Len(cfg.regex_patterns) = 2

-----------------------------------------------------------------------------
(* Properties of the pure functions *)

\* C10: match_output_files puts a file in category i exactly when pattern i
\* matches its base name: the list of category i is the matching files of the
\* input, in order, a file matching several patterns is in each of their
\* categories, and a category without a match has no key.
C10_Classification ==
    pin.kind = "match" /\ pout.set =>
        /\ DOMAIN pout.val \subseteq 0..(Len(pin.regex_patterns) - 1)
        /\ \A i \in 0..(Len(pin.regex_patterns) - 1) :
            LET pat == pin.regex_patterns[i + 1]
                hits == {k \in DOMAIN pin.file_paths :
                            Search(pat, pin.file_paths[k].name)}
            IN  /\ i \in DOMAIN pout.val <=> hits # {}
                /\ i \in DOMAIN pout.val =>
                     /\ pout.val[i] # <<>>
                     /\ Len(pout.val[i]) = Cardinality(hits)
                     /\ \A f \in MatchPaths :
                          f \in Range(pout.val[i]) <=>
                              \E k \in hits : pin.file_paths[k] = f

\* C10 witness: two files and two patterns; one file matches both patterns
\* and is in both categories, the other matches only the first
C10_Witness ==
    /\ pin.kind = "match" /\ pout.set
    /\ Len(pin.regex_patterns) = 2
    /\ Len(pin.file_paths) = 2
    /\ DOMAIN pout.val = {0, 1}
    /\ Len(pout.val[0]) = 2
    /\ Len(pout.val[1]) = 1

\* C10 witness (absence): some pattern of the list matches no file and its
\* category has no key, while another category is present
C10_WitnessAbsent ==
    /\ pin.kind = "match" /\ pout.set
    /\ DOMAIN pout.val = {1}

\* C2: the chunks partition the sample set: every sample of the table is in
\* exactly one chunk and no chunk holds a sample the table does not have.
C2_PartitionCoverage ==
    pin.kind = "part" /\ pout.set =>
        /\ \A s \in SampleSet(pin.table) :
             Cardinality({j \in DOMAIN pout.val : s \in SampleSet(pout.val[j])}) = 1
        /\ \A j \in DOMAIN pout.val :
             /\ SampleSet(pout.val[j]) \subseteq SampleSet(pin.table)
             /\ Cardinality(SampleSet(pout.val[j])) = Len(pout.val[j].sids)

\* C2 witness: a table cut into two chunks, one of them holding two samples
\* that are not adjacent in the table
C2_Witness ==
    /\ pin.kind = "part" /\ pout.set
    /\ Len(pout.val) = 2
    /\ \E j \in DOMAIN pout.val : SampleSet(pout.val[j]) = {1, 3}

\* C19: at every moment at most num_threads command processes are in
\* flight, no worker thread has two commands in flight, and with one thread
\* the command of a split is in flight only when every earlier split is done
\* with and no later split has been started.
C19_BoundedConcurrency ==
    IsRun /\ task # <<>> =>
        /\ Cardinality(InFlight) <= cfg.num_threads
        /\ \A i, j \in InFlight : i # j => task[i].w # task[j].w
        /\ cfg.num_threads = 1 =>
               \A i \in InFlight :
                  /\ \A j \in 1..(i - 1) : task[j].st = "collected"
                  /\ \A j \in (i + 1)..Len(task) : task[j].st = "queued"

\* every worker's command is in flight while a split still waits in the queue
C19_Witness ==
    /\ IsRun /\ cfg.num_threads > 1 /\ pc = "pool"
    /\ Cardinality(InFlight) = cfg.num_threads
    /\ \E i \in DOMAIN task : task[i].st = "queued"

\* a sequential run with the command of its second split in flight
C19_WitnessSeq ==
    /\ IsRun /\ cfg.num_threads = 1 /\ pc = "seq"
    /\ Len(task) > 2 /\ task[2].st = "cmd"

\* the splits have all been through the processing loop and the run was not
\* ended by an error raised in it
ProcessingDone ==
    /\ pc \in {"output", "finally", "exited"}
    /\ exc \notin {"load_table", "launch", "re.compile"}

\* C20: execute_command is entered at most once for a split, and never for a
\* split still in the queue; its command is started at most once per call;
\* and when the processing loop of a run that was not aborted is over,
\* execute_command has been entered exactly once for every split, failed or
\* not, and (where the command can be launched) every command ran once.
C20_DispatchedOnce ==
    IsRun /\ task # <<>> =>
        /\ \A i \in DOMAIN task :
              /\ hist.calls[i] = (IF task[i].st = "queued" THEN 0 ELSE 1)
              /\ hist.launches[i] <= hist.calls[i]
        /\ ProcessingDone =>
              \A i \in DOMAIN task :
                  /\ hist.calls[i] = 1
                  /\ cfg.launch => hist.launches[i] = 1

\* a run of more splits than threads has exited normally although the
\* command of a split failed
C20_Witness ==
    /\ Exited /\ exc = None /\ cfg.num_threads > 1
    /\ Len(task) > cfg.num_threads
    /\ \E i \in DOMAIN task : task[i].rc > 0

\* a sequential run has exited normally although the command of a split failed
C20_WitnessSeq ==
    /\ Exited /\ exc = None /\ cfg.num_threads = 1
    /\ \E i \in DOMAIN task : task[i].rc > 0

\* the chunk file of every split is in the workspace
ChunksWritten ==
    /\ hist.loaded /\ Len(splitFps) = Len(task)
    /\ \A i \in DOMAIN task : Loads(splitFps[i])

\* the output phase has begun: the main thread is in it, or a final output
\* file exists, or it has left it for the finally clause
OutputBegun ==
    \/ pc = "output"
    \/ FinalFiles # {}
    \/ /\ pc \in {"finally", "exited"}
       /\ exc \notin {"load_table", "launch", "re.compile", "interrupt"}

\* C21: partitioning, then dispatching and classifying, then merging or
\* copying. Before partition_table has returned no split exists and no
\* command was dispatched; while a split is being processed every chunk file
\* is in the workspace; and once the output phase has begun every split's
\* command has terminated, every worker has returned and every result has
\* been taken into the aggregate.
C21_PhaseOrder ==
    IsRun =>
        /\ pc \in {"validate", "mkdirs", "partition"} =>
              task = <<>> /\ FinalFiles = {}
        /\ pc \in {"seq", "pool"} => ChunksWritten /\ FinalFiles = {}
        /\ \A i \in DOMAIN task : hist.calls[i] > 0 /\ pc # "exited" => ChunksWritten
        /\ OutputBegun =>
              /\ InFlight = {}
              /\ \A i \in DOMAIN task : task[i].st = "collected"
              /\ \A g \in Categories : \A f \in ReportedFiles(g) :
                    CollectedCount(g, f) =
                        (IF f \in DOMAIN allGrouped[g] THEN allGrouped[g][f] ELSE 0)

\* the first category of a pool run of three splits has been merged or copied
\* into the final output directory and the next is about to be
C21_Witness ==
    /\ IsRun /\ cfg.num_threads > 1 /\ Len(task) > cfg.num_threads
    /\ pc = "output" /\ cur = 1 /\ FinalFiles # {}

\* the command of split i has been started
CommandStarted(i) == task[i].st = "cmd" \/ hist.launches[i] > 0

\* C22, as stated: for i < j the command of split j has not started before
\* the command of split i has, whatever num_threads is.
C22_CommandStartOrder ==
    IsRun =>
        \A i, j \in DOMAIN task : i < j /\ CommandStarted(j) => CommandStarted(i)

\* C22, amended: the splits are taken up in partition order (for i < j
\* split j is not taken from the queue before split i), and with one thread
\* the commands start in that order too.
C22_TakenInOrder ==
    IsRun =>
        /\ \A i, j \in DOMAIN task :
              i < j /\ task[j].st # "queued" => task[i].st # "queued"
        /\ cfg.num_threads = 1 =>
              \A i, j \in DOMAIN task :
                  i < j /\ CommandStarted(j) => CommandStarted(i)

\* two workers: the second split's command is in flight, the first split
\* was taken earlier and its command has not been started yet
C22_Witness ==
    /\ IsRun /\ cfg.num_threads > 1 /\ cfg.launch
    /\ task # <<>> /\ Len(task) > 1
    /\ task[1].st = "snap" /\ task[2].st = "cmd"

\* C27: when the input table cannot be loaded, the run never has a split,
\* never dispatches a command and never writes a file into the final output
\* directory; it ends with a non-zero exit code, and the workspace, which was
\* created before the load was tried, no longer exists when it ends.
C27_InputErrorFatal ==
    IsRun /\ ~cfg.readable /\ ~GroupNamesMismatch(cfg) =>
        /\ pc \in {"validate", "mkdirs", "partition", "finally", "exited"}
        /\ task = <<>> /\ splitFps = <<>> /\ ~hist.loaded
        /\ hist.calls = <<>> /\ hist.launches = <<>>
        /\ files = <<>>
        /\ pc \in {"partition", "finally", "exited"} => hist.tdCreated
        /\ pc = "finally" => exc = "load_table" /\ TD \in dirs
        /\ pc = "exited" =>
              /\ exitCode = 1
              /\ \A d \in dirs : ~Under(d, TD)

\* a run whose input table could not be loaded has ended; the final output
\* directory it made is all that is left
C27_Witness ==
    /\ Exited /\ ~cfg.readable /\ exc = "load_table"
    /\ hist.tdCreated /\ dirs = {FINAL}

\* the workspace was created and has been removed
WorkspaceRemoved == hist.tdCreated /\ TD \notin dirs

\* the splits a thread is working on: their command may be running, or is
\* about to be started, or its output is being listed
InProcessing == {i \in DOMAIN task : task[i].st \in {"snap", "cmd", "ran"}}

\* C28: the workspace is removed only at the end. While splits are being
\* processed and while categories are being merged or copied it exists; and
\* when the finally clause is reached no command is in flight and, in a pool
\* run, no worker is working on a split and no queued split will still be
\* started, also when the main thread raised inside the with block.
C28_CleanupAfterCommands ==
    IsRun =>
        /\ pc \in {"partition", "seq", "pool", "output", "finally"} => TD \in dirs
        /\ WorkspaceRemoved => pc = "exited"
        /\ pc \in {"finally", "exited"} =>
              /\ InFlight = {}
              /\ cfg.num_threads > 1 =>
                    /\ InProcessing = {}
                    /\ \A i \in DOMAIN task :
                          task[i].st \in {"finished", "collected"}

\* the main thread raised while a command was in flight and a split was
\* still queued; both commands have run to their end and the workspace was
\* removed after that
C28_Witness ==
    /\ Exited /\ exc = "interrupt" /\ WorkspaceRemoved
    /\ \E i, j \in hist.raisedDuring :
          /\ i # j
          /\ hist.launches[i] = 1 /\ hist.launches[j] = 1

\* a run that has not exited can take a step
NoStuckState == IsRun /\ pc # "exited" => ENABLED NextProc

\* C30: every run ends. Whatever the number of threads and of splits, the
\* process exits in the end, with an exit code, every split having been
\* completed or failed and the workspace removed.
C30_RunTerminates ==
    <>(/\ pc = "exited" /\ exitCode \in {0, 1}
       /\ exc = None => \A i \in DOMAIN task : task[i].st = "collected"
       /\ \A d \in dirs : ~Under(d, TD))

\* a run of more splits than threads has exited normally
C30_Witness ==
    /\ Exited /\ exitCode = 0 /\ cfg.num_threads > 1
    /\ Len(task) > cfg.num_threads
    /\ \A i \in DOMAIN task : task[i].st = "collected"
    /\ FinalFiles # {}

\* the samples at the ordered positions k*m .. k*m+m-1 of the similarity
\* ordering samples[ord] (positions counted from 0, cut at the last sample)
OrderedBlock(t, ord, m, k) ==
    {t.sids[ord[p + 1]] : p \in {q \in (k * m)..(k * m + m - 1) : q < Len(ord)}}

\* C11: a table with n >= 1 samples is cut into exactly ceil(n / m) chunks,
\* every chunk has between 1 and m samples, and the chunks are the contiguous
\* runs of the similarity ordering: for every k the samples at the ordered
\* positions k*m .. k*m+m-1 make up exactly one chunk; a one-sample table
\* gives one chunk for every m.
C11_ContiguousChunks ==
    pin.kind = "part" /\ pout.set /\ Len(pin.table.sids) >= 1 =>
        LET n == Len(pin.table.sids)
            m == pin.max_samples
            nchunks == (n + m - 1) \div m
        IN  /\ Len(pout.val) = nchunks
            /\ \A j \in DOMAIN pout.val :
                 /\ Len(pout.val[j].sids) >= 1
                 /\ Len(pout.val[j].sids) <= m
            /\ \A k \in 0..(nchunks - 1) :
                 Cardinality({j \in DOMAIN pout.val :
                     SampleSet(pout.val[j]) =
                         OrderedBlock(pin.table, pin.ord, m, k)}) = 1
            /\ n = 1 => Len(pout.val) = 1

\* C11 witness: three samples in an order other than the table's, cut by two:
\* a chunk of two samples that are not neighbours in the table and a last
\* chunk of one
C11_Witness ==
    /\ pin.kind = "part" /\ pout.set
    /\ Len(pin.table.sids) = 3 /\ pin.max_samples = 2
    /\ pin.ord = <<3, 1, 2>>
    /\ Len(pout.val) = 2
    /\ \E j \in DOMAIN pout.val : SampleSet(pout.val[j]) = {2}

\* C11 witness (one sample): a one-sample table cut with max_samples = 2
C11_WitnessSingle ==
    /\ pin.kind = "part" /\ pout.set
    /\ Len(pin.table.sids) = 1 /\ pin.max_samples = 2
    /\ Len(pout.val) = 1

\* the positions of input_files whose file exists and can be parsed
Loadable ==
    {k \in DOMAIN pin.input_files :
        /\ pin.input_files[k] \in DOMAIN pin.fs
        /\ IsTable(pin.fs[pin.input_files[k]])}

\* C12: join_biom_files skips every file that is missing or cannot be parsed:
\* it returns None exactly when no file loaded, it raises only when two loaded
\* tables share a sample id (never because of an unloadable file), and
\* otherwise the table it returns has the samples, the observations and the
\* values of exactly the files that loaded.
C12_UnloadableSkipped ==
    pin.kind = "join" /\ pout.set =>
        LET loaded(k) == pin.fs[pin.input_files[k]] IN
        /\ pout.val.kind = "none" <=> Loadable = {}
        /\ pout.val.kind = "raise" =>
             \E a, b \in Loadable :
                 a # b /\ SampleSet(loaded(a)) \cap SampleSet(loaded(b)) # {}
        /\ pout.val.kind = "table" =>
             /\ SampleSet(pout.val.table) =
                    UNION {SampleSet(loaded(k)) : k \in Loadable}
             /\ ObsSet(pout.val.table) =
                    UNION {ObsSet(loaded(k)) : k \in Loadable}
             /\ \A k \in Loadable : \A x \in SampleSet(loaded(k)) :
                    \A o \in ObsSet(pout.val.table) :
                        ValueAt(pout.val.table, o, x) = ValueAt(loaded(k), o, x)

\* C12 witness: three files listed, the first unparsable, the second missing,
\* the third a table: the result is that table
C12_Witness ==
    /\ pin.kind = "join" /\ pout.set
    /\ Len(pin.input_files) = 3
    /\ pin.input_files[1] \in DOMAIN pin.fs
    /\ ~IsTable(pin.fs[pin.input_files[1]])
    /\ pin.input_files[2] \notin DOMAIN pin.fs
    /\ Loadable = {3}
    /\ pout.val.kind = "table"
    /\ SampleSet(pout.val.table) = {1, 2}

\* C12 witness (None): files are listed, none loads, the result is None
C12_WitnessNone ==
    /\ pin.kind = "join" /\ pout.set
    /\ Len(pin.input_files) = 2
    /\ \E k \in DOMAIN pin.input_files :
         pin.input_files[k] \in DOMAIN pin.fs
    /\ pout.val.kind = "none"

\* the loadable files of input_files, in the order of the list
LoadedInOrder ==
    SelectSeq(pin.input_files,
              LAMBDA x : x \in DOMAIN pin.fs /\ IsTable(pin.fs[x]))

\* C24: a table returned by join_biom_files has as samples the samples of
\* the loaded files, each once, those of the first loaded file first; as
\* observations the observations of the loaded files, each once; and at
\* (observation, sample) the value of the file that carries the sample, zero
\* where that file does not have the observation.
C24_JoinedContent ==
    pin.kind = "join" /\ pout.set /\ pout.val.kind = "table" =>
        LET t == pout.val.table
            src(k) == pin.fs[LoadedInOrder[k]]
            base == src(1)
        IN  /\ SampleSet(t) = UNION {SampleSet(src(k)) : k \in DOMAIN LoadedInOrder}
            /\ Cardinality(SampleSet(t)) = Len(t.sids)
            /\ ObsSet(t) = UNION {ObsSet(src(k)) : k \in DOMAIN LoadedInOrder}
            /\ Cardinality(ObsSet(t)) = Len(t.oids)
            /\ SubSeq(t.sids, 1, Len(base.sids)) = base.sids
            /\ SubSeq(t.oids, 1, Len(base.oids)) = base.oids
            /\ \A k \in DOMAIN LoadedInOrder : \A x \in SampleSet(src(k)) :
                   \A o \in ObsSet(t) :
                       t.val[<<o, x>>] =
                           (IF o \in ObsSet(src(k)) THEN src(k).val[<<o, x>>] ELSE 0)

\* two files load; the base lacks an observation the other file has, and
\* the joined table is zero there for the base's sample
C24_Witness ==
    /\ pin.kind = "join" /\ pout.set /\ pout.val.kind = "table"
    /\ Len(LoadedInOrder) = 2
    /\ ObsSet(pin.fs[LoadedInOrder[1]]) = {"o1"}
    /\ ObsSet(pin.fs[LoadedInOrder[2]]) = {"o1", "o2"}
    /\ pout.val.table.sids = <<1, 2>>
    /\ pout.val.table.val[<<"o2", 1>>] = 0
    /\ pout.val.table.val[<<"o2", 2>>] = 1

\* C25: a chunk written by partition_table has no observation that is zero
\* in all of its samples; it has every sample of its block of the ordering,
\* a sample without a nonzero entry included; and every nonzero entry of the
\* original table for one of its samples is in it, unchanged.
C25_ChunkCompaction ==
    pin.kind = "part" /\ pout.set =>
        LET m == pin.max_samples IN
        \A j \in DOMAIN pout.val :
            LET c == pout.val[j] IN
            /\ \A o \in ObsSet(c) : \E x \in SampleSet(c) : c.val[<<o, x>>] # 0
            /\ \E k \in 0..Len(pin.table.sids) :
                   SampleSet(c) = OrderedBlock(pin.table, pin.ord, m, k)
            /\ \A x \in SampleSet(c) : \A o \in ObsSet(pin.table) :
                   pin.table.val[<<o, x>>] # 0 =>
                       o \in ObsSet(c) /\ c.val[<<o, x>>] = pin.table.val[<<o, x>>]

\* a chunk of two samples, one of them without a nonzero entry, that has
\* lost an observation of the original table
C25_Witness ==
    /\ pin.kind = "part" /\ pout.set
    /\ \E j \in DOMAIN pout.val :
          LET c == pout.val[j] IN
          /\ Len(c.sids) = 2
          /\ \E x \in SampleSet(c) : \A o \in ObsSet(pin.table) :
                 pin.table.val[<<o, x>>] = 0
          /\ Len(c.oids) = 1

\* the samples of the table have one and the same presence/absence column
AllColumnsAlike(t) ==
    \A a, b \in SampleSet(t) : BinaryColumn(t, a) = BinaryColumn(t, b)

C26_WitnessClustered ==
    /\ pin.kind = "clust" /\ pout.set
    /\ ~AllColumnsAlike(pin.table) /\ pin.link.kind = "order"
    /\ pout.val = <<3, 1, 2>>

\* the orders the runs and the partitions are explored with are the orders
\* ClusterOrder returns
ClusterOrdersAreOutcomes ==
    pin.kind = "clust" =>
        ClusterOrders(pin.table) =
            {ClusterOrder(pin.table, l) : l \in LinkageResults(Len(pin.table.sids))}

\* run r has made its workspace and has not ended
Live(r) == pout.run[r].pc \notin {"start", "done"}

\* C29: two runs that are live at the same time have different workspaces;
\* the directory listings of a run and the files attributed to it hold only
\* files the run wrote itself; and the cleanup of a run removes only files
\* the run wrote itself.
C29_WorkspacesNotShared ==
    pin.kind = "two" =>
        /\ \A r, q \in TwoRuns :
              r # q /\ Live(r) /\ Live(q) => pout.run[r].td # pout.run[q].td
        /\ \A r \in TwoRuns :
              /\ \A f \in pout.run[r].before \cup pout.run[r].got : f.by = r
              /\ \A f \in pout.run[r].deleted : f.by = r

-----------------------------------------------------------------------------
(* The command line of a chunk *)

EndsWith(s, e) == Len(e) <= Len(s) /\ SubSeq(s, Len(s) - Len(e) + 1, Len(s)) = e

\* the placeholder followed by an extension occurs in the word w
HasInputExtension(w) ==
    \E p \in 1..Len(w) :
        /\ At(w, p, PLACEHOLDER \o <<".">>)
        /\ RunLen(w, p + Len(PLACEHOLDER) + 1, TRUE) >= 1

\* word k of the command string names an output file: it holds '{input}.ext',
\* or it ends in .biom and is the argument of -o, --output or --out
DesignatesOutput(words, k) ==
    \/ HasInputExtension(words[k])
    \/ /\ EndsWith(words[k], DOT_BIOM)
       /\ \/ k > 1 /\ \E f \in DOMAIN OutputFlags : words[k - 1] = OutputFlags[f].flag
          \/ StartsWith(words[k], OutputFlags[4].flag)

\* word k of the command string holds the placeholder, never followed by an
\* extension, and names no output file
PlainInput(words, k) ==
    /\ Contains(PLACEHOLDER, words[k])
    /\ ~DesignatesOutput(words, k)

\* the words of the two chunks' command lines that stand for word k of the
\* command string name different files, each with its chunk's split_id
OutputNamesKeptApart(k) ==
    /\ Contains(SplitId(pin.i), pout.val[1][k])
    /\ Contains(SplitId(pin.j), pout.val[2][k])
    /\ pin.i # pin.j => pout.val[1][k] # pout.val[2][k]

\* C23: in the command lines of two chunks, the output file names the
\* command string designates ('{input}.ext', or a .biom argument of -o,
\* --output or --out) are different for different chunks and each holds its
\* chunk's split_id, and a placeholder without an extension has become the
\* chunk's absolute path and nothing else.
C23_SplicedCommand ==
    pin.kind = "cmd" /\ pout.set =>
        LET words == ShlexSplit(pin.command)
        IN  /\ Len(pout.val[1]) = Len(words) /\ Len(pout.val[2]) = Len(words)
            /\ \A k \in DOMAIN words :
                  /\ DesignatesOutput(words, k) => OutputNamesKeptApart(k)
                  /\ PlainInput(words, k) =>
                        pout.val[1][k] =
                            StrReplace(words[k], PLACEHOLDER,
                                       join(TD, SplitFileName(pin.i)))

\* The part of C23 about output names alone holds.
OutputNamesAreKeptApart ==
    pin.kind = "cmd" /\ pout.set =>
        \A k \in DOMAIN ShlexSplit(pin.command) :
            DesignatesOutput(ShlexSplit(pin.command), k) => OutputNamesKeptApart(k)

\* The part of C23 about plain inputs holds for the placeholder as a word of
\* its own that follows no output flag.
PlainInputAfterOtherFlag ==
    pin.kind = "cmd" /\ pout.set =>
        \A k \in DOMAIN ShlexSplit(pin.command) :
            /\ ShlexSplit(pin.command)[k] = PLACEHOLDER
            /\ k > 1 => \A f \in DOMAIN OutputFlags :
                            ShlexSplit(pin.command)[k - 1] # OutputFlags[f].flag
            => pout.val[1][k] = join(TD, SplitFileName(pin.i))

====
